---- MODULE Spec2Model ----
(***************************************************************************)
(* Model of the UniquersTranscriber pipeline: the Express server           *)
(* (server.js: POST /upload and POST /upload/batch) and the command-line   *)
(* tool (cli-transcriber.js: transcribe -> processFiles -> processFile).   *)
(* Every await of the handlers is one step; the outcome of each external   *)
(* call (ffmpeg, the AssemblyAI client, the filesystem) is chosen          *)
(* nondeterministically at the step that makes the call.                   *)
(***************************************************************************)
EXTENDS Integers, Sequences, FiniteSets, TLC

(***************************************************************************)
(* Bounds of the model                                                     *)
(***************************************************************************)
\* largest number of files in one request / one CLI invocation
MaxFiles == 2

\* largest number of status checks the remote service answers in-flight
MaxPolls == 2

(***************************************************************************)
(* Program constants                                                       *)
(***************************************************************************)
\* upload.array('files', 10)
BatchLimit == 10

Reqs == {"r1", "r2"}

NoPath == <<>>

(***************************************************************************)
(* Media classifier (server.js)                                            *)
(***************************************************************************)
\* String.prototype.toLowerCase on the extensions the model draws
ToLower(e) ==
  CASE e = ".MP3" -> ".mp3"
    [] e = ".MP4" -> ".mp4"
    [] OTHER -> e

videoMimeTypes ==
  {"video/mp4", "video/avi", "video/mov", "video/wmv", "video/flv",
   "video/webm", "video/x-msvideo", "video/quicktime"}

videoExtensions == {".mp4", ".avi", ".mov", ".wmv", ".flv", ".webm"}

audioMimeTypes ==
  {"audio/mpeg", "audio/mp3", "audio/wav", "audio/m4a", "audio/aac",
   "audio/ogg", "audio/x-m4a", "audio/mp4", "audio/x-wav", "audio/wave",
   "audio/x-aac"}

audioExtensions == {".mp3", ".wav", ".m4a", ".aac", ".ogg"}

isVideoFile(file) ==
  file.mime \in videoMimeTypes \/ ToLower(file.ext) \in videoExtensions

isAudioFile(file) ==
  file.mime \in audioMimeTypes \/ ToLower(file.ext) \in audioExtensions

getFileDestination(file) ==
  IF isVideoFile(file) THEN "uploads/video"
  ELSE IF isAudioFile(file) THEN "uploads/audio"
  ELSE "uploads"

allowedTypes ==
  {"audio/mpeg", "audio/mp3", "audio/wav", "audio/m4a", "audio/aac",
   "video/mp4", "video/avi", "video/mov", "video/wmv", "video/flv",
   "audio/ogg", "video/webm", "audio/x-m4a", "video/x-msvideo",
   "audio/mp4", "video/quicktime", "audio/x-wav", "audio/wave",
   "audio/x-aac", "application/octet-stream"}

allowedExtensions ==
  {".mp3", ".wav", ".m4a", ".aac", ".mp4", ".avi", ".mov",
   ".wmv", ".flv", ".ogg", ".webm"}

\* multer fileFilter: TRUE when the file is accepted
fileFilter(file) ==
  file.mime \in allowedTypes \/ ToLower(file.ext) \in allowedExtensions

\* the Error the filter passes to multer for a rejected file
fileFilterError(file) ==
  <<"Unsupported file type: ", file.mime, file.base, file.ext>>

(***************************************************************************)
(* Media classifier (cli-transcriber.js): extension only                   *)
(***************************************************************************)
cliVideoExtensions == {".mp4", ".avi", ".mov", ".wmv", ".flv", ".webm", ".mkv"}

cliAudioExtensions == {".mp3", ".wav", ".m4a", ".aac", ".ogg", ".flac", ".wma"}

cliIsVideoFile(file) == ToLower(file.ext) \in cliVideoExtensions

cliIsAudioFile(file) == ToLower(file.ext) \in cliAudioExtensions

(***************************************************************************)
(* Paths.  A path is <<directory, name, tag>>.                             *)
(***************************************************************************)
\* multer diskStorage: destination by kind, filename made unique by
\* Date.now() and a random suffix (modelled by the request and the position)
FilePath(r, k, file) == <<getFileDestination(file), r, k>>

\* path.join(tempDir, `${baseName}_audio.m4a`)
UploadTempPath(file) == <<"temp", file.base, 0>>

\* path.join(tempDir, `${baseName}_audio_${fileNum}.m4a`)
BatchTempPath(file, fileNum) == <<"temp", file.base, fileNum>>

\* path.join(transcriptionsDir, baseName, `${baseName}<suffix>`), suffix j:
\* 1 = .txt, 2 = _speakers.txt, 3 = _timestamps.txt, 4 = _full.json
OutPath(file, j) == <<"transcriptions", file.base, j>>

(***************************************************************************)
(* Inputs                                                                  *)
(***************************************************************************)
\* the files a client may send: original name and declared MIME type
ServerFiles ==
  { [base |-> "a", ext |-> ".mp3", mime |-> "audio/mpeg"],
    [base |-> "a", ext |-> ".mp4", mime |-> "video/mp4"],
    [base |-> "b", ext |-> ".MP4", mime |-> "application/octet-stream"],
    [base |-> "b", ext |-> ".xyz", mime |-> "application/octet-stream"],
    [base |-> "a", ext |-> ".xyz", mime |-> "text/plain"] }

\* sequences of at most n elements of S
SeqUpTo(S, n) == UNION { [1..m -> S] : m \in 0..n }

\* what the remote service can report once waiting ends
NoTranscript ==
  [status |-> "none", text |-> FALSE, utt |-> "absent", error |-> "none"]

CompletedTranscripts ==
  { [status |-> "completed", text |-> TRUE, utt |-> u, error |-> "none"] :
      u \in {"absent", "empty", "some"} }

ErrorTranscript ==
  [status |-> "error", text |-> FALSE, utt |-> "absent", error |-> "remote-error"]

VARIABLES
  disk,      \* set of paths that exist on the filesystem
  rq,        \* server: request -> state of its handler
  calls,     \* log of the calls made to the remote service
  rmFailed,  \* TRUE once a file removal has failed
  cli,       \* state of the command-line run
  pure       \* input and outputs of the formatting code applied on its own

vars == <<disk, rq, calls, rmFailed, cli, pure>>

\* the three copies of the persisting code
Impls == {"upload", "batch", "cli"}

\* no formatting code is being applied on its own
NoPure == [kind |-> "none", in |-> <<>>, out |-> [impl \in Impls |-> <<>>]]

(***************************************************************************)
(* Server requests                                                         *)
(***************************************************************************)
NoRequest ==
  [kind |-> "none", files |-> <<>>, pc |-> "idle", i |-> 0,
   audioFilePath |-> NoPath, transcript |-> NoTranscript, err |-> <<>>,
   results |-> <<>>, errors |-> <<>>, responses |-> <<>>, job |-> <<>>]

NewRequest(kind, files) ==
  [NoRequest EXCEPT !.kind = kind, !.files = files, !.pc = "multer",
                    !.job = [k \in 1..Len(files) |-> "pending"]]

\* req.file.path / req.files[k].path
PathOf(r, k) == FilePath(r, k, rq[r].files[k])

\* an HTTP response
Response(status, success, error, details, results, errors) ==
  [status |-> status, success |-> success, error |-> error, details |-> details,
   results |-> results, errors |-> errors,
   totalProcessed |-> Len(results), totalErrors |-> Len(errors)]

\* file.originalname
OriginalName(file) == <<file.base, file.ext>>

\* the record of a successful job: the original name and the four files the
\* response refers to (filename and downloadUrl of each)
SuccessRecord(file) ==
  [originalFilename |-> OriginalName(file),
   files |-> { OutPath(file, j) : j \in 1..4 }]

\* the record of a failed job in a batch
ErrorRecord(file, msg) == [filename |-> OriginalName(file), error |-> msg]

Call(op, r, k, path) == [op |-> op, who |-> <<r, k>>, path |-> path]

\* fs.remove(p): removes p when it succeeds, and succeeds on a missing path
Removed(d, p, ok) == IF ok THEN d \ {p} ELSE d

(***************************************************************************)
(* Error messages (err.message), as sequences of their parts               *)
(***************************************************************************)
FFmpegMissingMsg == <<"FFmpeg is not installed">>

FFmpegFailedMsg == <<"Audio extraction failed: ", "ffmpeg-error">>

ExtractWrap(msg) == <<"Failed to extract audio from video: ">> \o msg

SdkUploadMsg == <<"sdk-upload-error">>

SdkCreateMsg == <<"sdk-create-error">>

SdkWaitMsg == <<"sdk-wait-error">>

FsWriteMsg == <<"fs-write-error">>

\* fs.writeFile(path, data) with data null or undefined (Node >= 14)
FsWriteArgMsg == <<"ERR_INVALID_ARG_TYPE">>

FsRemoveMsg == <<"fs-remove-error">>

ReferenceErrorMsg == <<"audioFilePath is not defined">>

\* ExtractOutcomes as it would be if the conversion were started before the
\* version probe is answered
ExtractOutcomes_ProbeAfterStart ==
  { [res |-> "missing", wrote |-> TRUE],
    [res |-> "error", wrote |-> FALSE],
    [res |-> "error", wrote |-> TRUE],
    [res |-> "end", wrote |-> TRUE] }

(***************************************************************************)
(* extractAudioFromVideo(inputPath, outputPath): the outcomes              *)
(*   "missing"  the version probe fails: rejected before ffmpeg is started *)
(*   "error"    ffmpeg reports an error; a partial output may be left      *)
(*   "end"      the output file is written                                 *)
(***************************************************************************)
ExtractOutcomes ==
  { [res |-> "missing", wrote |-> FALSE],
    [res |-> "error", wrote |-> FALSE],
    [res |-> "error", wrote |-> TRUE],
    [res |-> "end", wrote |-> TRUE] }

ExtractError(o) == IF o.res = "missing" THEN FFmpegMissingMsg ELSE FFmpegFailedMsg

(***************************************************************************)
(* POST /upload                                                            *)
(***************************************************************************)
\* names the catch block of the handler can read: audioFilePath is declared
\* with let inside the try block
UploadCatchScope == {"req", "res", "err"}

\* a throw inside the try block of the single-file handler
UploadThrow(r, msg) == [rq EXCEPT ![r].pc = "catch", ![r].err = msg]

\* upload.single('file'): filter and store the file, then call the handler
Upload_Multer(r) ==
  /\ rq[r].kind = "single"
  /\ rq[r].pc = "multer"
  /\ IF Len(rq[r].files) = 1 /\ ~fileFilter(rq[r].files[1])
     THEN /\ rq' = [rq EXCEPT ![r].pc = "done",
                      ![r].responses = Append(@,
                         Response(400, FALSE, fileFilterError(rq[r].files[1]),
                                  <<>>, <<>>, <<>>))]
          /\ disk' = disk
     ELSE /\ rq' = [rq EXCEPT ![r].pc = "handler"]
          /\ disk' = disk \cup { PathOf(r, k) : k \in 1..Len(rq[r].files) }
  /\ UNCHANGED <<calls, rmFailed, cli, pure>>

\* lines 173-199: no file -> 400; else classify and choose the audio path
Upload_Start(r) ==
  /\ rq[r].kind = "single"
  /\ rq[r].pc = "handler"
  /\ IF Len(rq[r].files) = 0
     THEN rq' = [rq EXCEPT ![r].pc = "done",
                   ![r].responses = Append(@,
                      Response(400, FALSE, <<"No file uploaded">>, <<>>, <<>>, <<>>))]
     ELSE rq' = [rq EXCEPT ![r].i = 1,
                   ![r].job[1] = "running",
                   ![r].audioFilePath =
                      IF isVideoFile(rq[r].files[1])
                      THEN UploadTempPath(rq[r].files[1]) ELSE PathOf(r, 1),
                   ![r].pc = IF isVideoFile(rq[r].files[1]) THEN "extract" ELSE "upload"]
  /\ UNCHANGED <<disk, calls, rmFailed, cli, pure>>

\* lines 200-206: await extractAudioFromVideo(filePath, audioFilePath)
Upload_Extract(r) ==
  /\ rq[r].kind = "single"
  /\ rq[r].pc = "extract"
  /\ \E o \in ExtractOutcomes :
       /\ disk' = IF o.wrote THEN disk \cup {rq[r].audioFilePath} ELSE disk
       /\ rq' = IF o.res = "end"
                THEN [rq EXCEPT ![r].pc = "upload"]
                ELSE UploadThrow(r, ExtractWrap(ExtractError(o)))
  /\ UNCHANGED <<calls, rmFailed, cli, pure>>

\* line 211: await client.files.upload(audioFilePath)
Upload_RemoteUpload(r) ==
  /\ rq[r].kind = "single"
  /\ rq[r].pc = "upload"
  /\ calls' = Append(calls, Call("upload", r, 1, rq[r].audioFilePath))
  /\ \E ok \in BOOLEAN :
       rq' = IF ok THEN [rq EXCEPT ![r].pc = "create"]
             ELSE UploadThrow(r, SdkUploadMsg)
  /\ UNCHANGED <<disk, rmFailed, cli, pure>>

\* lines 219-224: await client.transcripts.create({...})
Upload_Create(r) ==
  /\ rq[r].kind = "single"
  /\ rq[r].pc = "create"
  /\ calls' = Append(calls, Call("create", r, 1, rq[r].audioFilePath))
  /\ \E ok \in BOOLEAN :
       rq' = IF ok THEN [rq EXCEPT ![r].pc = "wait"]
             ELSE UploadThrow(r, SdkCreateMsg)
  /\ UNCHANGED <<disk, rmFailed, cli, pure>>

\* line 232: await client.transcripts.waitUntilReady(transcript.id), which
\* returns the transcript once its status is completed or error, or throws
Upload_Wait(r) ==
  /\ rq[r].kind = "single"
  /\ rq[r].pc = "wait"
  /\ calls' = Append(calls, Call("wait", r, 1, rq[r].audioFilePath))
  /\ \/ rq' = UploadThrow(r, SdkWaitMsg)
     \/ \E t \in CompletedTranscripts \cup {ErrorTranscript} :
          rq' = [rq EXCEPT ![r].transcript = t, ![r].pc = "write1"]
  /\ UNCHANGED <<disk, rmFailed, cli, pure>>

\* Upload_WriteText as it would be without the test of utterances
Upload_WriteText_AlwaysSpeakers(r) ==
  /\ rq[r].kind = "single"
  /\ rq[r].pc = "write1"
  /\ IF ~rq[r].transcript.text
     THEN /\ rq' = UploadThrow(r, FsWriteArgMsg)
          /\ disk' = disk
     ELSE \E ok \in BOOLEAN :
          IF ok
          THEN /\ disk' = disk \cup {OutPath(rq[r].files[1], 1)}
               /\ rq' = [rq EXCEPT ![r].pc = "write2"]
          ELSE /\ disk' = disk
               /\ rq' = UploadThrow(r, FsWriteMsg)
  /\ UNCHANGED <<calls, rmFailed, cli, pure>>

\* lines 241-252: make the output directory, write the plain text
Upload_WriteText(r) ==
  /\ rq[r].kind = "single"
  /\ rq[r].pc = "write1"
  /\ IF ~rq[r].transcript.text
     THEN /\ rq' = UploadThrow(r, FsWriteArgMsg)
          /\ disk' = disk
     ELSE \E ok \in BOOLEAN :
          IF ok
          THEN /\ disk' = disk \cup {OutPath(rq[r].files[1], 1)}
               /\ rq' = [rq EXCEPT ![r].pc =
                           IF rq[r].transcript.utt = "some" THEN "write2" ELSE "write4"]
          ELSE /\ disk' = disk
               /\ rq' = UploadThrow(r, FsWriteMsg)
  /\ UNCHANGED <<calls, rmFailed, cli, pure>>

\* lines 255-259: the speaker file
Upload_WriteSpeakers(r) ==
  /\ rq[r].kind = "single"
  /\ rq[r].pc = "write2"
  /\ \E ok \in BOOLEAN :
       IF ok
       THEN /\ disk' = disk \cup {OutPath(rq[r].files[1], 2)}
            /\ rq' = [rq EXCEPT ![r].pc = "write3"]
       ELSE /\ disk' = disk
            /\ rq' = UploadThrow(r, FsWriteMsg)
  /\ UNCHANGED <<calls, rmFailed, cli, pure>>

\* lines 262-271: the timestamp file
Upload_WriteTimestamps(r) ==
  /\ rq[r].kind = "single"
  /\ rq[r].pc = "write3"
  /\ \E ok \in BOOLEAN :
       IF ok
       THEN /\ disk' = disk \cup {OutPath(rq[r].files[1], 3)}
            /\ rq' = [rq EXCEPT ![r].pc = "write4"]
       ELSE /\ disk' = disk
            /\ rq' = UploadThrow(r, FsWriteMsg)
  /\ UNCHANGED <<calls, rmFailed, cli, pure>>

\* lines 278-285: the full JSON file
Upload_WriteJson(r) ==
  /\ rq[r].kind = "single"
  /\ rq[r].pc = "write4"
  /\ \E ok \in BOOLEAN :
       IF ok
       THEN /\ disk' = disk \cup {OutPath(rq[r].files[1], 4)}
            /\ rq' = [rq EXCEPT ![r].pc = "rm1"]
       ELSE /\ disk' = disk
            /\ rq' = UploadThrow(r, FsWriteMsg)
  /\ UNCHANGED <<calls, rmFailed, cli, pure>>

\* line 292: await fs.remove(filePath)
Upload_RemoveUpload(r) ==
  /\ rq[r].kind = "single"
  /\ rq[r].pc = "rm1"
  /\ \E ok \in BOOLEAN :
       /\ disk' = Removed(disk, PathOf(r, 1), ok)
       /\ rmFailed' = (rmFailed \/ ~ok)
       /\ rq' = IF ok
                THEN [rq EXCEPT ![r].pc =
                        IF rq[r].audioFilePath # PathOf(r, 1) THEN "rm2" ELSE "respond"]
                ELSE UploadThrow(r, FsRemoveMsg)
  /\ UNCHANGED <<calls, cli, pure>>

\* lines 293-296: await fs.remove(audioFilePath)
Upload_RemoveAudio(r) ==
  /\ rq[r].kind = "single"
  /\ rq[r].pc = "rm2"
  /\ \E ok \in BOOLEAN :
       /\ disk' = Removed(disk, rq[r].audioFilePath, ok)
       /\ rmFailed' = (rmFailed \/ ~ok)
       /\ rq' = IF ok THEN [rq EXCEPT ![r].pc = "respond"]
                ELSE UploadThrow(r, FsRemoveMsg)
  /\ UNCHANGED <<calls, cli, pure>>

\* lines 300-322: res.json({success: true, ...})
Upload_Respond(r) ==
  /\ rq[r].kind = "single"
  /\ rq[r].pc = "respond"
  /\ rq' = [rq EXCEPT ![r].pc = "done",
              ![r].job[1] = "ok",
              ![r].responses = Append(@,
                 Response(200, TRUE, <<>>, <<>>, <<SuccessRecord(rq[r].files[1])>>, <<>>))]
  /\ UNCHANGED <<disk, calls, rmFailed, cli, pure>>

\* lines 324-338: catch (err): remove req.file.path, a failure is only logged
Upload_CatchRemoveUpload(r) ==
  /\ rq[r].kind = "single"
  /\ rq[r].pc = "catch"
  /\ \E ok \in BOOLEAN :
       /\ disk' = Removed(disk, PathOf(r, 1), ok)
       /\ rmFailed' = (rmFailed \/ ~ok)
  /\ rq' = [rq EXCEPT ![r].pc = "catch2"]
  /\ UNCHANGED <<calls, cli, pure>>

\* lines 339-350: remove the extracted audio and answer 500; the read of
\* audioFilePath throws a ReferenceError when the name is not in scope, and
\* the promise of the async callback is then rejected with nobody to handle it
Upload_CatchRemoveAudio(r) ==
  /\ rq[r].kind = "single"
  /\ rq[r].pc = "catch2"
  /\ IF "audioFilePath" \in UploadCatchScope
     THEN \E ok \in BOOLEAN :
            /\ disk' = IF rq[r].audioFilePath # PathOf(r, 1)
                       THEN Removed(disk, rq[r].audioFilePath, ok) ELSE disk
            /\ rmFailed' = (rmFailed \/ (rq[r].audioFilePath # PathOf(r, 1) /\ ~ok))
            /\ rq' = [rq EXCEPT ![r].pc = "done",
                        ![r].job[1] = "failed",
                        ![r].responses = Append(@,
                           Response(500, FALSE, <<"Internal Server Error">>,
                                    rq[r].err, <<>>, <<>>))]
     ELSE /\ rq' = [rq EXCEPT ![r].pc = "rejected",
                      ![r].job[1] = "failed",
                      ![r].err = ReferenceErrorMsg]
          /\ UNCHANGED <<disk, rmFailed>>
  /\ UNCHANGED <<calls, cli, pure>>

UploadNext(r) ==
  \/ Upload_Multer(r)
  \/ Upload_Start(r)
  \/ Upload_Extract(r)
  \/ Upload_RemoteUpload(r)
  \/ Upload_Create(r)
  \/ Upload_Wait(r)
  \/ Upload_WriteText(r)
  \/ Upload_WriteSpeakers(r)
  \/ Upload_WriteTimestamps(r)
  \/ Upload_WriteJson(r)
  \/ Upload_RemoveUpload(r)
  \/ Upload_RemoveAudio(r)
  \/ Upload_Respond(r)
  \/ Upload_CatchRemoveUpload(r)
  \/ Upload_CatchRemoveAudio(r)

(***************************************************************************)
(* POST /upload/batch                                                      *)
(***************************************************************************)
\* names the per-file catch block can read: audioFilePath is declared with
\* let inside the per-file try block
BatchCatchScope == {"req", "res", "file", "fileNum", "i", "results", "errors", "error"}

\* a throw inside the per-file try block
BatchThrow(r, msg) == [rq EXCEPT ![r].pc = "catch", ![r].err = msg]

\* positions of the files the filter rejects
Rejected(files) == { k \in 1..Len(files) : ~fileFilter(files[k]) }

\* least element of a non-empty set of numbers
Min(S) == CHOOSE x \in S : \A y \in S : x <= y

\* Batch_Multer as it would be without the limit of 10 files
Batch_Multer_NoLimit(r) ==
  /\ rq[r].kind = "batch"
  /\ rq[r].pc = "multer"
  /\ LET files == rq[r].files
         firstBad == IF Rejected(files) = {} THEN Len(files) + 1 ELSE Min(Rejected(files))
     IN IF firstBad <= Len(files)
        THEN /\ rq' = [rq EXCEPT ![r].pc = "done",
                         ![r].responses = Append(@,
                            Response(400, FALSE, fileFilterError(files[firstBad]),
                                     <<>>, <<>>, <<>>))]
             /\ disk' = disk
        ELSE /\ rq' = [rq EXCEPT ![r].pc = "handler"]
             /\ disk' = disk \cup { PathOf(r, k) : k \in 1..Len(files) }
  /\ UNCHANGED <<calls, rmFailed, cli, pure>>

\* upload.array('files', 10): more than 10 files or a rejected file end the
\* request with multer's error (multer removes what it had stored); else all
\* files are stored and the handler runs
Batch_Multer(r) ==
  /\ rq[r].kind = "batch"
  /\ rq[r].pc = "multer"
  /\ LET files == rq[r].files
         firstBad == IF Rejected(files) = {} THEN Len(files) + 1 ELSE Min(Rejected(files))
     IN IF Len(files) > BatchLimit /\ firstBad > BatchLimit
        THEN /\ rq' = [rq EXCEPT ![r].pc = "done",
                         ![r].responses = Append(@,
                            Response(400, FALSE, <<"Unexpected field">>, <<>>, <<>>, <<>>))]
             /\ disk' = disk
        ELSE IF firstBad <= Len(files)
        THEN /\ rq' = [rq EXCEPT ![r].pc = "done",
                         ![r].responses = Append(@,
                            Response(400, FALSE, fileFilterError(files[firstBad]),
                                     <<>>, <<>>, <<>>))]
             /\ disk' = disk
        ELSE /\ rq' = [rq EXCEPT ![r].pc = "handler"]
             /\ disk' = disk \cup { PathOf(r, k) : k \in 1..Len(files) }
  /\ UNCHANGED <<calls, rmFailed, cli, pure>>

\* lines 363-377: no files -> 400; else results = [], errors = [], i = 0
Batch_Start(r) ==
  /\ rq[r].kind = "batch"
  /\ rq[r].pc = "handler"
  /\ IF Len(rq[r].files) = 0
     THEN rq' = [rq EXCEPT ![r].pc = "done",
                   ![r].responses = Append(@,
                      Response(400, FALSE, <<"No files uploaded">>, <<>>, <<>>, <<>>))]
     ELSE rq' = [rq EXCEPT ![r].i = 1, ![r].results = <<>>, ![r].errors = <<>>,
                           ![r].pc = "loop"]
  /\ UNCHANGED <<disk, calls, rmFailed, cli, pure>>

\* Batch_JobStart as it would be if every file were sent to extraction
Batch_JobStart_ExtractsAll(r) ==
  /\ rq[r].kind = "batch"
  /\ rq[r].pc = "loop"
  /\ rq[r].i <= Len(rq[r].files)
  /\ LET i == rq[r].i
         file == rq[r].files[i]
     IN rq' = [rq EXCEPT ![r].job[i] = "running",
                 ![r].transcript = NoTranscript,
                 ![r].audioFilePath = BatchTempPath(file, i),
                 ![r].pc = "extract"]
  /\ UNCHANGED <<disk, calls, rmFailed, cli, pure>>

\* lines 379-403: the loop test holds; classify file i, choose its audio path
Batch_JobStart(r) ==
  /\ rq[r].kind = "batch"
  /\ rq[r].pc = "loop"
  /\ rq[r].i <= Len(rq[r].files)
  /\ LET i == rq[r].i
         file == rq[r].files[i]
     IN rq' = [rq EXCEPT ![r].job[i] = "running",
                 ![r].transcript = NoTranscript,
                 ![r].audioFilePath =
                    IF isVideoFile(file) THEN BatchTempPath(file, i) ELSE PathOf(r, i),
                 ![r].pc = IF isVideoFile(file) THEN "extract" ELSE "upload"]
  /\ UNCHANGED <<disk, calls, rmFailed, cli, pure>>

\* lines 405-411: await extractAudioFromVideo(filePath, audioFilePath)
Batch_Extract(r) ==
  /\ rq[r].kind = "batch"
  /\ rq[r].pc = "extract"
  /\ \E o \in ExtractOutcomes :
       /\ disk' = IF o.wrote THEN disk \cup {rq[r].audioFilePath} ELSE disk
       /\ rq' = IF o.res = "end"
                THEN [rq EXCEPT ![r].pc = "upload"]
                ELSE BatchThrow(r, ExtractWrap(ExtractError(o)))
  /\ UNCHANGED <<calls, rmFailed, cli, pure>>

\* line 416: await client.files.upload(audioFilePath)
Batch_RemoteUpload(r) ==
  /\ rq[r].kind = "batch"
  /\ rq[r].pc = "upload"
  /\ calls' = Append(calls, Call("upload", r, rq[r].i, rq[r].audioFilePath))
  /\ \E ok \in BOOLEAN :
       rq' = IF ok THEN [rq EXCEPT ![r].pc = "create"]
             ELSE BatchThrow(r, SdkUploadMsg)
  /\ UNCHANGED <<disk, rmFailed, cli, pure>>

\* lines 421-426: await client.transcripts.create({...})
Batch_Create(r) ==
  /\ rq[r].kind = "batch"
  /\ rq[r].pc = "create"
  /\ calls' = Append(calls, Call("create", r, rq[r].i, rq[r].audioFilePath))
  /\ \E ok \in BOOLEAN :
       rq' = IF ok THEN [rq EXCEPT ![r].pc = "wait"]
             ELSE BatchThrow(r, SdkCreateMsg)
  /\ UNCHANGED <<disk, rmFailed, cli, pure>>

\* line 431: await client.transcripts.waitUntilReady(transcript.id)
Batch_Wait(r) ==
  /\ rq[r].kind = "batch"
  /\ rq[r].pc = "wait"
  /\ calls' = Append(calls, Call("wait", r, rq[r].i, rq[r].audioFilePath))
  /\ \/ rq' = BatchThrow(r, SdkWaitMsg)
     \/ \E t \in CompletedTranscripts \cup {ErrorTranscript} :
          rq' = [rq EXCEPT ![r].transcript = t, ![r].pc = "write1"]
  /\ UNCHANGED <<disk, rmFailed, cli, pure>>

\* lines 436-447: make the output directory, write the plain text
Batch_WriteText(r) ==
  /\ rq[r].kind = "batch"
  /\ rq[r].pc = "write1"
  /\ IF ~rq[r].transcript.text
     THEN /\ rq' = BatchThrow(r, FsWriteArgMsg)
          /\ disk' = disk
     ELSE \E ok \in BOOLEAN :
          IF ok
          THEN /\ disk' = disk \cup {OutPath(rq[r].files[rq[r].i], 1)}
               /\ rq' = [rq EXCEPT ![r].pc =
                           IF rq[r].transcript.utt = "some" THEN "write2" ELSE "write4"]
          ELSE /\ disk' = disk
               /\ rq' = BatchThrow(r, FsWriteMsg)
  /\ UNCHANGED <<calls, rmFailed, cli, pure>>

\* lines 450-454: the speaker file
Batch_WriteSpeakers(r) ==
  /\ rq[r].kind = "batch"
  /\ rq[r].pc = "write2"
  /\ \E ok \in BOOLEAN :
       IF ok
       THEN /\ disk' = disk \cup {OutPath(rq[r].files[rq[r].i], 2)}
            /\ rq' = [rq EXCEPT ![r].pc = "write3"]
       ELSE /\ disk' = disk
            /\ rq' = BatchThrow(r, FsWriteMsg)
  /\ UNCHANGED <<calls, rmFailed, cli, pure>>

\* lines 457-466: the timestamp file
Batch_WriteTimestamps(r) ==
  /\ rq[r].kind = "batch"
  /\ rq[r].pc = "write3"
  /\ \E ok \in BOOLEAN :
       IF ok
       THEN /\ disk' = disk \cup {OutPath(rq[r].files[rq[r].i], 3)}
            /\ rq' = [rq EXCEPT ![r].pc = "write4"]
       ELSE /\ disk' = disk
            /\ rq' = BatchThrow(r, FsWriteMsg)
  /\ UNCHANGED <<calls, rmFailed, cli, pure>>

\* Batch_WriteJson as it would be if the loop went on to the next file
\* without waiting for the cleanup of the current one
Batch_WriteJson_NoCleanupWait(r) ==
  /\ rq[r].kind = "batch"
  /\ rq[r].pc = "write4"
  /\ \E ok \in BOOLEAN :
       IF ok
       THEN /\ disk' = disk \cup {OutPath(rq[r].files[rq[r].i], 4)}
            /\ rq' = [rq EXCEPT ![r].i = @ + 1, ![r].pc = "loop"]
       ELSE /\ disk' = disk
            /\ rq' = BatchThrow(r, FsWriteMsg)
  /\ UNCHANGED <<calls, rmFailed, cli, pure>>

\* lines 473-480: the full JSON file
Batch_WriteJson(r) ==
  /\ rq[r].kind = "batch"
  /\ rq[r].pc = "write4"
  /\ \E ok \in BOOLEAN :
       IF ok
       THEN /\ disk' = disk \cup {OutPath(rq[r].files[rq[r].i], 4)}
            /\ rq' = [rq EXCEPT ![r].pc = "rm1"]
       ELSE /\ disk' = disk
            /\ rq' = BatchThrow(r, FsWriteMsg)
  /\ UNCHANGED <<calls, rmFailed, cli, pure>>

\* line 487: await fs.remove(filePath)
Batch_RemoveUpload(r) ==
  /\ rq[r].kind = "batch"
  /\ rq[r].pc = "rm1"
  /\ \E ok \in BOOLEAN :
       /\ disk' = Removed(disk, PathOf(r, rq[r].i), ok)
       /\ rmFailed' = (rmFailed \/ ~ok)
       /\ rq' = IF ok
                THEN [rq EXCEPT ![r].pc =
                        IF rq[r].audioFilePath # PathOf(r, rq[r].i) THEN "rm2" ELSE "push"]
                ELSE BatchThrow(r, FsRemoveMsg)
  /\ UNCHANGED <<calls, cli, pure>>

\* lines 488-491: await fs.remove(audioFilePath)
Batch_RemoveAudio(r) ==
  /\ rq[r].kind = "batch"
  /\ rq[r].pc = "rm2"
  /\ \E ok \in BOOLEAN :
       /\ disk' = Removed(disk, rq[r].audioFilePath, ok)
       /\ rmFailed' = (rmFailed \/ ~ok)
       /\ rq' = IF ok THEN [rq EXCEPT ![r].pc = "push"]
                ELSE BatchThrow(r, FsRemoveMsg)
  /\ UNCHANGED <<calls, cli, pure>>

\* lines 494-516 and the i++ of the loop: results.push({...})
Batch_PushResult(r) ==
  /\ rq[r].kind = "batch"
  /\ rq[r].pc = "push"
  /\ rq' = [rq EXCEPT ![r].results = Append(@, SuccessRecord(rq[r].files[rq[r].i])),
              ![r].job[rq[r].i] = "ok",
              ![r].i = @ + 1,
              ![r].pc = "loop"]
  /\ UNCHANGED <<disk, calls, rmFailed, cli, pure>>

\* Batch_Catch as it would be without the removal of file.path
Batch_Catch_KeepsUpload(r) ==
  /\ rq[r].kind = "batch"
  /\ rq[r].pc = "catch"
  /\ rq' = [rq EXCEPT ![r].errors = Append(@, ErrorRecord(rq[r].files[rq[r].i], rq[r].err)),
              ![r].pc = "catch2"]
  /\ UNCHANGED <<disk, calls, rmFailed, cli, pure>>

\* lines 518-534: catch (error): errors.push({filename, error}), then remove
\* file.path, a failure of the removal is only logged
Batch_Catch(r) ==
  /\ rq[r].kind = "batch"
  /\ rq[r].pc = "catch"
  /\ \E ok \in BOOLEAN :
       /\ disk' = Removed(disk, PathOf(r, rq[r].i), ok)
       /\ rmFailed' = (rmFailed \/ ~ok)
  /\ rq' = [rq EXCEPT ![r].errors = Append(@, ErrorRecord(rq[r].files[rq[r].i], rq[r].err)),
              ![r].pc = "catch2"]
  /\ UNCHANGED <<calls, cli, pure>>

\* lines 535-540 and the i++ of the loop: remove the extracted audio; the read
\* of audioFilePath throws a ReferenceError when the name is not in scope, and
\* the error leaves the loop for the outer catch
Batch_CatchRemoveAudio(r) ==
  /\ rq[r].kind = "batch"
  /\ rq[r].pc = "catch2"
  /\ IF "audioFilePath" \in BatchCatchScope
     THEN \E ok \in BOOLEAN :
            /\ disk' = IF rq[r].audioFilePath # PathOf(r, rq[r].i)
                       THEN Removed(disk, rq[r].audioFilePath, ok) ELSE disk
            /\ rmFailed' = (rmFailed \/ (rq[r].audioFilePath # PathOf(r, rq[r].i) /\ ~ok))
            /\ rq' = [rq EXCEPT ![r].job[rq[r].i] = "failed",
                                ![r].i = @ + 1,
                                ![r].pc = "loop"]
     ELSE /\ rq' = [rq EXCEPT ![r].job[rq[r].i] = "failed",
                              ![r].err = ReferenceErrorMsg,
                              ![r].pc = "outercatch"]
          /\ UNCHANGED <<disk, rmFailed>>
  /\ UNCHANGED <<calls, cli, pure>>

\* lines 543-556: the loop test fails; res.json({success: true, results, ...})
Batch_Respond(r) ==
  /\ rq[r].kind = "batch"
  /\ rq[r].pc = "loop"
  /\ rq[r].i > Len(rq[r].files)
  /\ rq' = [rq EXCEPT ![r].pc = "done",
              ![r].responses = Append(@,
                 Response(200, TRUE, <<>>, <<>>, rq[r].results, rq[r].errors))]
  /\ UNCHANGED <<disk, calls, rmFailed, cli, pure>>

\* lines 558-582: outer catch: remove every uploaded file (failures are only
\* logged), answer 500 {error, details}
Batch_OuterCatch(r) ==
  /\ rq[r].kind = "batch"
  /\ rq[r].pc = "outercatch"
  /\ \E okSet \in SUBSET (1..Len(rq[r].files)) :
       /\ disk' = disk \ { PathOf(r, k) : k \in okSet }
       /\ rmFailed' = (rmFailed \/ okSet # 1..Len(rq[r].files))
  /\ rq' = [rq EXCEPT ![r].pc = "done",
              ![r].responses = Append(@,
                 Response(500, FALSE, <<"Batch transcription failed">>, rq[r].err,
                          <<>>, <<>>))]
  /\ UNCHANGED <<calls, cli, pure>>

BatchNext(r) ==
  \/ Batch_Multer(r)
  \/ Batch_Start(r)
  \/ Batch_JobStart(r)
  \/ Batch_Extract(r)
  \/ Batch_RemoteUpload(r)
  \/ Batch_Create(r)
  \/ Batch_Wait(r)
  \/ Batch_WriteText(r)
  \/ Batch_WriteSpeakers(r)
  \/ Batch_WriteTimestamps(r)
  \/ Batch_WriteJson(r)
  \/ Batch_RemoveUpload(r)
  \/ Batch_RemoveAudio(r)
  \/ Batch_PushResult(r)
  \/ Batch_Catch(r)
  \/ Batch_CatchRemoveAudio(r)
  \/ Batch_Respond(r)
  \/ Batch_OuterCatch(r)

(***************************************************************************)
(* cli-transcriber.js                                                      *)
(***************************************************************************)
\* the command-line arguments: a file name and whether the file exists
CliArgs ==
  { [base |-> "a", ext |-> ".mp3", exists |-> TRUE],
    [base |-> "a", ext |-> ".MP4", exists |-> TRUE],
    [base |-> "b", ext |-> ".mkv", exists |-> TRUE],
    [base |-> "b", ext |-> ".xyz", exists |-> TRUE],
    [base |-> "b", ext |-> ".mp3", exists |-> FALSE] }

\* path.resolve(file)
InputPath(file) == <<"input", file.base, file.ext>>

\* path.join(tempDir, `${baseName}_audio.m4a`)
CliTempPath(file) == <<"temp", file.base, 0>>

InFlight == {"queued", "processing"}

Statuses == {"queued", "processing", "completed", "error", "other"}

\* the transcript objects the remote service can answer with status s
TranscriptsOf(s) ==
  IF s = "completed" THEN CompletedTranscripts
  ELSE IF s = "error" THEN {ErrorTranscript}
  ELSE {[NoTranscript EXCEPT !.status = s]}

CliOff ==
  [pc |-> "off", args |-> <<>>, valid |-> <<>>, i |-> 0, audioFilePath |-> NoPath,
   transcript |-> NoTranscript, polls |-> 0, results |-> <<>>, errors |-> <<>>,
   job |-> <<>>, exit |-> -1, created |-> "none", script |-> <<>>]

CliRun(args) == [CliOff EXCEPT !.pc = "main", !.args = args]

\* the files of args that exist, in order (validFiles)
RECURSIVE ValidFiles(_)
ValidFiles(args) ==
  IF args = <<>> THEN <<>>
  ELSE IF Head(args).exists THEN <<Head(args)>> \o ValidFiles(Tail(args))
  ELSE ValidFiles(Tail(args))

\* processFile's catch (lines 264-267) returns {success: false, error}, and
\* processFiles (lines 285-287) pushes it to errors and goes to the next file
CliThrow(msg) ==
  [cli EXCEPT !.errors = Append(@, [file |-> InputPath(cli.valid[cli.i]), error |-> msg]),
              !.job[cli.i] = "failed",
              !.created = "none",
              !.i = @ + 1,
              !.pc = "loop"]

\* lines 320-347: keep the arguments that exist; none -> exit 1
Cli_Transcribe ==
  /\ cli.pc = "main"
  /\ LET validFiles == ValidFiles(cli.args)
     IN cli' = IF Len(validFiles) = 0
               THEN [cli EXCEPT !.pc = "exited", !.exit = 1]
               ELSE [cli EXCEPT !.valid = validFiles,
                                !.job = [k \in 1..Len(validFiles) |-> "pending"],
                                !.i = 1, !.results = <<>>, !.errors = <<>>,
                                !.pc = "loop"]
  /\ UNCHANGED <<disk, rq, calls, rmFailed, pure>>

\* lines 277-281 and 92-117: processFile(filePath): validate, choose audio path
Cli_JobStart ==
  /\ cli.pc = "loop"
  /\ cli.i <= Len(cli.valid)
  /\ LET file == cli.valid[cli.i]
         running == [cli EXCEPT !.job[cli.i] = "running", !.polls = 0,
                                !.transcript = NoTranscript, !.created = "none",
                                !.audioFilePath = InputPath(file)]
     IN cli' = IF InputPath(file) \notin disk
               THEN CliThrow(<<"File not found: ", file.base, file.ext>>)
               ELSE IF ~cliIsAudioFile(file) /\ ~cliIsVideoFile(file)
               THEN CliThrow(<<"Unsupported file type: ", file.ext>>)
               ELSE IF cliIsVideoFile(file)
               THEN [running EXCEPT !.audioFilePath = CliTempPath(file), !.pc = "extract"]
               ELSE [running EXCEPT !.pc = "upload"]
  /\ UNCHANGED <<disk, rq, calls, rmFailed, pure>>

\* lines 119-123: await extractAudioFromVideo(filePath, audioFilePath)
Cli_Extract ==
  /\ cli.pc = "extract"
  /\ \E o \in ExtractOutcomes :
       /\ disk' = IF o.wrote THEN disk \cup {cli.audioFilePath} ELSE disk
       /\ cli' = IF o.res = "end"
                 THEN [cli EXCEPT !.pc = "upload"]
                 ELSE CliThrow(ExtractWrap(ExtractError(o)))
  /\ UNCHANGED <<rq, calls, rmFailed, pure>>

\* lines 127-135: await client.files.upload(audioFilePath)
Cli_RemoteUpload ==
  /\ cli.pc = "upload"
  /\ calls' = Append(calls, Call("upload", "cli", cli.i, cli.audioFilePath))
  /\ \E ok \in BOOLEAN :
       cli' = IF ok THEN [cli EXCEPT !.pc = "upload2"]
              ELSE CliThrow(<<"Upload failed: ">> \o SdkUploadMsg)
  /\ UNCHANGED <<disk, rq, rmFailed, pure>>

\* line 142: audio_url: await client.files.upload(audioFilePath)
Cli_UploadForConfig ==
  /\ cli.pc = "upload2"
  /\ calls' = Append(calls, Call("upload", "cli", cli.i, cli.audioFilePath))
  /\ \E ok \in BOOLEAN :
       cli' = IF ok THEN [cli EXCEPT !.pc = "create"]
              ELSE CliThrow(<<"Transcription request failed: ">> \o SdkUploadMsg)
  /\ UNCHANGED <<disk, rq, rmFailed, pure>>

\* lines 153-159: transcript = await client.transcripts.create(config)
Cli_Create ==
  /\ cli.pc = "create"
  /\ calls' = Append(calls, Call("create", "cli", cli.i, cli.audioFilePath))
  /\ \/ cli' = CliThrow(<<"Transcription request failed: ">> \o SdkCreateMsg)
     \/ \E s \in Statuses : \E t \in TranscriptsOf(s) :
          cli' = [cli EXCEPT !.transcript = t, !.created = s, !.pc = "poll"]
  /\ UNCHANGED <<disk, rq, rmFailed, pure>>

\* the statuses the remote may report on the next status check: the next one
\* of the script while it lasts, any status afterwards (in flight at most
\* MaxPolls - 1 times)
PollAnswers ==
  IF cli.polls < Len(cli.script) THEN {cli.script[cli.polls + 1]}
  ELSE IF cli.polls + 1 < MaxPolls THEN Statuses
  ELSE Statuses \ InFlight

\* Cli_Poll as it would be with a loop that goes on until 'completed'
Cli_Poll_UntilCompleted ==
  /\ cli.pc = "poll"
  /\ cli.transcript.status # "completed"
  /\ calls' = Append(calls, Call("get", "cli", cli.i, cli.audioFilePath))
  /\ \/ cli' = CliThrow(SdkWaitMsg)
     \/ \E s \in PollAnswers : \E t \in TranscriptsOf(s) :
          cli' = [cli EXCEPT !.transcript = t, !.polls = @ + 1]
  /\ UNCHANGED <<disk, rq, rmFailed, pure>>

\* Cli_Poll as it would be with a local limit of one status check
Cli_Poll_GivesUp ==
  /\ cli.pc = "poll"
  /\ cli.transcript.status \in InFlight
  /\ cli.polls < 1
  /\ calls' = Append(calls, Call("get", "cli", cli.i, cli.audioFilePath))
  /\ \/ cli' = CliThrow(SdkWaitMsg)
     \/ \E s \in PollAnswers : \E t \in TranscriptsOf(s) :
          cli' = [cli EXCEPT !.transcript = t, !.polls = @ + 1]
  /\ UNCHANGED <<disk, rq, rmFailed, pure>>

\* lines 167-176: the status is in flight: wait 5 s, then
\* finalTranscript = await client.transcripts.get(transcript.id)
Cli_Poll ==
  /\ cli.pc = "poll"
  /\ cli.transcript.status \in InFlight
  /\ calls' = Append(calls, Call("get", "cli", cli.i, cli.audioFilePath))
  /\ \/ cli' = CliThrow(SdkWaitMsg)
     \/ \E s \in PollAnswers : \E t \in TranscriptsOf(s) :
          cli' = [cli EXCEPT !.transcript = t, !.polls = @ + 1]
  /\ UNCHANGED <<disk, rq, rmFailed, pure>>

\* lines 178-202: the loop ended: an error status throws; else make the output
\* directory and write the plain text
Cli_WriteText ==
  /\ cli.pc = "poll"
  /\ cli.transcript.status \notin InFlight
  /\ IF cli.transcript.status = "error"
     THEN /\ cli' = CliThrow(<<"Transcription failed: ", cli.transcript.error>>)
          /\ disk' = disk
     ELSE IF ~cli.transcript.text
     THEN /\ cli' = CliThrow(FsWriteArgMsg)
          /\ disk' = disk
     ELSE \E ok \in BOOLEAN :
          IF ok
          THEN /\ disk' = disk \cup {OutPath(cli.valid[cli.i], 1)}
               /\ cli' = [cli EXCEPT !.pc =
                            IF cli.transcript.utt = "some" THEN "write2" ELSE "write4"]
          ELSE /\ disk' = disk
               /\ cli' = CliThrow(FsWriteMsg)
  /\ UNCHANGED <<rq, calls, rmFailed, pure>>

\* lines 205-209: the speaker file
Cli_WriteSpeakers ==
  /\ cli.pc = "write2"
  /\ \E ok \in BOOLEAN :
       IF ok
       THEN /\ disk' = disk \cup {OutPath(cli.valid[cli.i], 2)}
            /\ cli' = [cli EXCEPT !.pc = "write3"]
       ELSE /\ disk' = disk
            /\ cli' = CliThrow(FsWriteMsg)
  /\ UNCHANGED <<rq, calls, rmFailed, pure>>

\* lines 212-221: the timestamp file
Cli_WriteTimestamps ==
  /\ cli.pc = "write3"
  /\ \E ok \in BOOLEAN :
       IF ok
       THEN /\ disk' = disk \cup {OutPath(cli.valid[cli.i], 3)}
            /\ cli' = [cli EXCEPT !.pc = "write4"]
       ELSE /\ disk' = disk
            /\ cli' = CliThrow(FsWriteMsg)
  /\ UNCHANGED <<rq, calls, rmFailed, pure>>

\* lines 225-233: the full JSON file
Cli_WriteJson ==
  /\ cli.pc = "write4"
  /\ \E ok \in BOOLEAN :
       IF ok
       THEN /\ disk' = disk \cup {OutPath(cli.valid[cli.i], 4)}
            /\ cli' = [cli EXCEPT !.pc = "cleanup"]
       ELSE /\ disk' = disk
            /\ cli' = CliThrow(FsWriteMsg)
  /\ UNCHANGED <<rq, calls, rmFailed, pure>>

\* Cli_Cleanup as it would be without the test audioFilePath !== filePath
Cli_Cleanup_RemovesAlways ==
  /\ cli.pc = "cleanup"
  /\ \E ok \in BOOLEAN :
       /\ disk' = Removed(disk, cli.audioFilePath, ok)
       /\ rmFailed' = (rmFailed \/ ~ok)
  /\ cli' = [cli EXCEPT !.results = Append(@,
                          [file |-> InputPath(cli.valid[cli.i]),
                           files |-> { OutPath(cli.valid[cli.i], j) : j \in 1..4 }]),
                        !.job[cli.i] = "ok",
                        !.created = "none",
                        !.i = @ + 1,
                        !.pc = "loop"]
  /\ UNCHANGED <<rq, calls, pure>>

\* lines 244-257 and 283-284: remove the extracted audio (a failure is
\* swallowed), return {success: true, files}; processFiles pushes the result
Cli_Cleanup ==
  /\ cli.pc = "cleanup"
  /\ \E ok \in BOOLEAN :
       /\ disk' = IF cli.audioFilePath # InputPath(cli.valid[cli.i])
                  THEN Removed(disk, cli.audioFilePath, ok) ELSE disk
       /\ rmFailed' = (rmFailed \/ (cli.audioFilePath # InputPath(cli.valid[cli.i]) /\ ~ok))
  /\ cli' = [cli EXCEPT !.results = Append(@,
                          [file |-> InputPath(cli.valid[cli.i]),
                           files |-> { OutPath(cli.valid[cli.i], j) : j \in 1..4 }]),
                        !.job[cli.i] = "ok",
                        !.created = "none",
                        !.i = @ + 1,
                        !.pc = "loop"]
  /\ UNCHANGED <<rq, calls, pure>>

\* lines 290-302 and 348-359: processFiles returns {results, errors};
\* process.exit(errors.length > 0 ? 1 : 0)
Cli_Exit ==
  /\ cli.pc = "loop"
  /\ cli.i > Len(cli.valid)
  /\ cli' = [cli EXCEPT !.pc = "exited",
                        !.exit = IF Len(cli.errors) > 0 THEN 1 ELSE 0]
  /\ UNCHANGED <<disk, rq, calls, rmFailed, pure>>

CliNext ==
  \/ Cli_Transcribe
  \/ Cli_JobStart
  \/ Cli_Extract
  \/ Cli_RemoteUpload
  \/ Cli_UploadForConfig
  \/ Cli_Create
  \/ Cli_Poll
  \/ Cli_WriteText
  \/ Cli_WriteSpeakers
  \/ Cli_WriteTimestamps
  \/ Cli_WriteJson
  \/ Cli_Cleanup
  \/ Cli_Exit

(***************************************************************************)
(* Specification: one server request (single or batch) or one CLI run      *)
(***************************************************************************)
InitServer ==
  /\ \E kind \in {"single", "batch"} :
     \E files \in SeqUpTo(ServerFiles, IF kind = "single" THEN 1 ELSE MaxFiles) :
       rq = [r \in Reqs |-> IF r = "r1" THEN NewRequest(kind, files) ELSE NoRequest]
  /\ cli = CliOff
  /\ disk = {}

InitCli ==
  /\ rq = [r \in Reqs |-> NoRequest]
  /\ \E args \in SeqUpTo(CliArgs, MaxFiles) \ {<<>>} :
       /\ cli = CliRun(args)
       /\ disk = { InputPath(args[k]) : k \in { n \in 1..Len(args) : args[n].exists } }

Init ==
  /\ calls = <<>>
  /\ rmFailed = FALSE
  /\ pure = NoPure
  /\ (InitServer \/ InitCli)

Next ==
  \/ \E r \in Reqs : UploadNext(r)
  \/ \E r \in Reqs : BatchNext(r)
  \/ CliNext

Spec == Init /\ [][Next]_vars

(***************************************************************************)
(* Vocabulary of the properties                                            *)
(***************************************************************************)
Terminal == {"ok", "failed"}

\* the batch request r passed multer (1..10 files, none rejected)
BatchAccepted(r) ==
  /\ rq[r].kind = "batch"
  /\ Len(rq[r].files) \in 1..BatchLimit
  /\ Rejected(rq[r].files) = {}

\* the handler of request r has ended (answered, or rejected unhandled)
Ended(r) == rq[r].pc \in {"done", "rejected"}

\* the path of the audio extracted for job k of request r
TempOf(r, k) ==
  IF rq[r].kind = "single" THEN UploadTempPath(rq[r].files[k])
  ELSE BatchTempPath(rq[r].files[k], k)

(***************************************************************************)
(* C1  Server, /upload and /upload/batch: once a job has reached its       *)
(* terminal outcome (success or failure at any step), and no removal       *)
(* operation has failed, the uploaded file at file.path is not on disk.    *)
(***************************************************************************)
C1_UploadRemoved ==
  \A r \in Reqs : \A k \in 1..Len(rq[r].job) :
    (rq[r].job[k] \in Terminal /\ ~rmFailed) => PathOf(r, k) \notin disk

\* a batch whose first job succeeded and whose second failed, both uploads gone
C1_Witness ==
  \E r \in Reqs :
    /\ rq[r].kind = "batch"
    /\ Len(rq[r].job) = 2
    /\ rq[r].job[1] = "ok"
    /\ rq[r].job[2] = "failed"
    /\ ~rmFailed
    /\ PathOf(r, 1) \notin disk
    /\ PathOf(r, 2) \notin disk

(***************************************************************************)
(* C2  Server: for every video job the extracted-audio file under temp/    *)
(* does not exist once the job is done, on success and on failure (no      *)
(* removal operation having failed).                                       *)
(***************************************************************************)
C2_TempRemoved ==
  \A r \in Reqs : \A k \in 1..Len(rq[r].job) :
    (/\ rq[r].job[k] \in Terminal
     /\ isVideoFile(rq[r].files[k])
     /\ ~rmFailed)
    => TempOf(r, k) \notin disk

(***************************************************************************)
(* C3  CLI: when processFile returns for a video file, with success or     *)
(* with a failure, temp/<base>_audio.m4a does not exist (no removal        *)
(* operation having failed).                                               *)
(***************************************************************************)
C3_CliTempRemoved ==
  (/\ cli.pc = "loop"
   /\ cli.i > 1
   /\ cliIsVideoFile(cli.valid[cli.i - 1])
   /\ ~rmFailed)
  => CliTempPath(cli.valid[cli.i - 1]) \notin disk

(***************************************************************************)
(* C4  Server batch: a failing job is recorded in errors and the later     *)
(* files are still processed: the failure never reaches the outer catch,   *)
(* and when the handler has answered every file has had its job.           *)
(***************************************************************************)
C4_BatchContinues ==
  \A r \in Reqs :
    BatchAccepted(r) =>
      /\ rq[r].pc # "outercatch"
      /\ rq[r].pc = "done" =>
           /\ \A k \in 1..Len(rq[r].job) : rq[r].job[k] \in Terminal
           /\ Len(rq[r].errors) =
                Cardinality({ k \in 1..Len(rq[r].job) : rq[r].job[k] = "failed" })

(***************************************************************************)
(* C5  Every batch request that passes upload validation with at least one *)
(* file is answered 2xx with success: true, however many jobs fail.        *)
(***************************************************************************)
C5_BatchEnvelope ==
  \A r \in Reqs :
    (BatchAccepted(r) /\ rq[r].pc = "done") =>
      /\ Len(rq[r].responses) = 1
      /\ rq[r].responses[1].status \in 200..299
      /\ rq[r].responses[1].success

(***************************************************************************)
(* C6  Server /upload: once the handler of a failed job has ended, exactly *)
(* one response was sent, it is not 2xx and it carries error and details.  *)
(***************************************************************************)
C6_SingleFailureAnswered ==
  \A r \in Reqs :
    (rq[r].kind = "single" /\ Ended(r) /\ Len(rq[r].job) = 1 /\ rq[r].job[1] = "failed") =>
      /\ Len(rq[r].responses) = 1
      /\ rq[r].responses[1].status \notin 200..299
      /\ rq[r].responses[1].error # <<>>
      /\ rq[r].responses[1].details # <<>>

(***************************************************************************)
(* C7  Server batch of N files in which exactly file k is of an            *)
(* unsupported type: the response has success: true and exactly one error  *)
(* record, which names file k, next to the records of the other files.     *)
(***************************************************************************)
C7_BatchUnsupportedFile ==
  \A r \in Reqs :
    (/\ rq[r].kind = "batch"
     /\ rq[r].pc = "done"
     /\ Len(rq[r].files) >= 2
     /\ Cardinality(Rejected(rq[r].files)) = 1) =>
      LET k == Min(Rejected(rq[r].files))
          resp == rq[r].responses[1]
      IN /\ resp.status \in 200..299
         /\ resp.success
         /\ Len(resp.errors) = 1
         /\ resp.errors[1].filename = OriginalName(rq[r].files[k])
         /\ Len(resp.results) <= Len(rq[r].files) - 1

(***************************************************************************)
(* C8  No remote call is made for a file whose MIME type is in neither     *)
(* MIME allow-list and whose extension is in neither extension allow-list  *)
(* (server), or whose extension is in neither extension list (CLI).        *)
(***************************************************************************)
C8_NoRemoteCallForUnsupported ==
  \A n \in 1..Len(calls) :
    LET who == calls[n].who
    IN IF who[1] = "cli"
       THEN cliIsAudioFile(cli.valid[who[2]]) \/ cliIsVideoFile(cli.valid[who[2]])
       ELSE isAudioFile(rq[who[1]].files[who[2]]) \/ isVideoFile(rq[who[1]].files[who[2]])

(***************************************************************************)
(* C9  When a batch run completes (server batch response, CLI processFiles *)
(* return) every input file is in exactly one of results and errors and    *)
(* the counts are the list lengths: totalProcessed = |results|,            *)
(* totalErrors = |errors|, |results| + |errors| = N.                        *)
(***************************************************************************)
C9_BatchOutcomeComplete ==
  /\ \A r \in Reqs :
       (BatchAccepted(r) /\ rq[r].pc = "done") =>
         LET resp == rq[r].responses[1]
         IN /\ resp.totalProcessed = Len(resp.results)
            /\ resp.totalErrors = Len(resp.errors)
            /\ Len(resp.results) + Len(resp.errors) = Len(rq[r].files)
  /\ (cli.pc = "exited" /\ Len(cli.valid) > 0) =>
       Len(cli.results) + Len(cli.errors) = Len(cli.valid)

C11_ReferencedOutputsExist ==
  /\ \A r \in Reqs :
       /\ \A n \in 1..Len(rq[r].results) : rq[r].results[n].files \subseteq disk
       /\ \A m \in 1..Len(rq[r].responses) :
            \A n \in 1..Len(rq[r].responses[m].results) :
              rq[r].responses[m].results[n].files \subseteq disk
  /\ \A n \in 1..Len(cli.results) : cli.results[n].files \subseteq disk

(***************************************************************************)
(* C12  When the remote job ends in status error, the persisting step is   *)
(* not entered, the job is not reported successful, and the error of the   *)
(* failed job carries the remote-supplied error text (server and CLI).     *)
(***************************************************************************)
C12_RemoteErrorReported ==
  /\ \A r \in Reqs :
       rq[r].transcript.status = "error" =>
         /\ rq[r].pc \notin {"write1", "write2", "write3", "write4", "rm1", "rm2",
                             "respond", "push"}
         /\ rq[r].pc \in {"catch", "catch2"} =>
              \E n \in 1..Len(rq[r].err) : rq[r].err[n] = rq[r].transcript.error
  /\ (cli.transcript.status = "error" /\ cli.pc = "loop") =>
       /\ cli.job[cli.i - 1] = "failed"
       /\ \E n \in 1..Len(cli.errors[Len(cli.errors)].error) :
            cli.errors[Len(cli.errors)].error[n] = cli.transcript.error

(***************************************************************************)
(* C14  If an output write fails, the job is never reported successful and *)
(* the failure is reported as that job's error: the batch response lists   *)
(* the error record of the job, the CLI result lists it in errors.  (The   *)
(* response of the single-file handler to a failure is the subject of C6.) *)
(***************************************************************************)
C14_WriteFailureReported ==
  /\ \A r \in Reqs :
       /\ (rq[r].kind = "single" /\ rq[r].err = FsWriteMsg) => rq[r].responses = <<>>
       /\ (rq[r].kind = "batch" /\ rq[r].pc = "done") =>
            \A n \in 1..Len(rq[r].errors) :
              rq[r].errors[n].error = FsWriteMsg =>
                /\ Len(rq[r].responses) = 1
                /\ \E m \in 1..Len(rq[r].responses[1].errors) :
                     rq[r].responses[1].errors[m] = rq[r].errors[n]
                /\ \A m \in 1..Len(rq[r].responses[1].results) :
                     rq[r].responses[1].results[m].originalFilename
                       # rq[r].errors[n].filename
  /\ \A k \in 1..Len(cli.job) :
       cli.job[k] = "ok" =>
         \A n \in 1..Len(cli.errors) :
           (cli.errors[n].file = InputPath(cli.valid[k])
              /\ Cardinality({ j \in 1..Len(cli.valid) : cli.valid[j] = cli.valid[k] }) = 1)
           => cli.errors[n].error # FsWriteMsg

(***************************************************************************)
(* C15  A failing file removal during cleanup never changes a job's        *)
(* outcome: no job fails with the removal error, neither in the server     *)
(* handlers nor in the CLI.                                                *)
(***************************************************************************)
C15_CleanupFailureHarmless ==
  /\ \A r \in Reqs :
       /\ rq[r].err # FsRemoveMsg
       /\ \A n \in 1..Len(rq[r].errors) : rq[r].errors[n].error # FsRemoveMsg
  /\ \A n \in 1..Len(cli.errors) : cli.errors[n].error # FsRemoveMsg

(***************************************************************************)
(* Specification: two /upload requests served concurrently, each with one  *)
(* video file                                                              *)
(***************************************************************************)
VideoFiles == { f \in ServerFiles : isVideoFile(f) }

InitConc ==
  /\ rq \in [Reqs -> { NewRequest("single", <<f>>) : f \in VideoFiles }]
  /\ cli = CliOff
  /\ disk = {}
  /\ calls = <<>>
  /\ rmFailed = FALSE
  /\ pure = NoPure

NextConc == \E r \in Reqs : UploadNext(r)

SpecConc == InitConc /\ [][NextConc]_vars

\* the job of request r has chosen its extracted-audio path and not yet ended
UsesTemp(r) ==
  /\ Len(rq[r].files) = 1
  /\ isVideoFile(rq[r].files[1])
  /\ rq[r].pc \in {"extract", "upload", "create", "wait", "write1", "write2",
                   "write3", "write4", "rm1", "rm2"}

(***************************************************************************)
(* C16  Two jobs processed concurrently by separate server requests never  *)
(* use the same temporary extracted-audio path, also when both uploaded    *)
(* videos have the same original base name.                                *)
(***************************************************************************)
C16_DistinctTempPaths ==
  \A r1, r2 \in Reqs :
    (r1 # r2 /\ UsesTemp(r1) /\ UsesTemp(r2)) =>
      rq[r1].audioFilePath # rq[r2].audioFilePath

(***************************************************************************)
(* C17  Persisting a completed transcript creates the plain-text and the   *)
(* full-JSON file; it creates the speaker and the timestamp file when the  *)
(* utterance list is non-empty, and creates neither of them when the list  *)
(* is empty or absent.                                                     *)
(***************************************************************************)
\* the job of request r has finished persisting
Persisted(r) == rq[r].pc \in {"rm1", "rm2", "respond", "push"}

\* the outputs that exist for file after a job with utterances utt persisted
OutputsWritten(file, utt) ==
  /\ OutPath(file, 1) \in disk
  /\ OutPath(file, 4) \in disk
  /\ utt = "some" => (OutPath(file, 2) \in disk /\ OutPath(file, 3) \in disk)

\* path p is the speaker or timestamp output of file
SpeakerOrTimestamp(p, file) == p = OutPath(file, 2) \/ p = OutPath(file, 3)

\* every speaker or timestamp file created by this step belongs to a job
\* whose transcript has utterances
CreatesOnlyWithUtterances ==
  \A p \in disk' \ disk :
    /\ \A r \in Reqs :
         (rq[r].pc \in {"write1", "write2", "write3", "write4"}
            /\ SpeakerOrTimestamp(p, rq[r].files[rq[r].i]))
         => rq[r].transcript.utt = "some"
    /\ (cli.pc \in {"poll", "write2", "write3", "write4"}
          /\ SpeakerOrTimestamp(p, cli.valid[cli.i]))
       => cli.transcript.utt = "some"

C17_OutputsByUtterances ==
  /\ [](/\ \A r \in Reqs :
            Persisted(r) => OutputsWritten(rq[r].files[rq[r].i], rq[r].transcript.utt)
        /\ cli.pc = "cleanup" => OutputsWritten(cli.valid[cli.i], cli.transcript.utt))
  /\ [][CreatesOnlyWithUtterances]_vars

\* a single-file job persisted a transcript with an empty utterance list:
\* text and JSON exist, speaker and timestamp files do not
C17_Witness ==
  \E r \in Reqs :
    /\ rq[r].kind = "single"
    /\ rq[r].pc = "respond"
    /\ rq[r].transcript.utt = "empty"
    /\ OutPath(rq[r].files[1], 1) \in disk
    /\ OutPath(rq[r].files[1], 4) \in disk
    /\ OutPath(rq[r].files[1], 2) \notin disk
    /\ OutPath(rq[r].files[1], 3) \notin disk

(***************************************************************************)
(* C20  When the conversion tool is missing, extraction fails right after  *)
(* the version probe: the step writes no file and makes no remote call,    *)
(* the video job has made no remote call when it fails, and jobs for audio *)
(* files never reach extraction nor fail with an extraction error.         *)
(***************************************************************************)
ToolMissingMsg == ExtractWrap(FFmpegMissingMsg)

\* no remote call was made for job k of requester who
NoCallFor(who, k) == \A n \in 1..Len(calls) : calls[n].who # <<who, k>>

\* a step in which an extraction is rejected by the version probe
ToolMissingStep ==
  /\ \A r \in Reqs :
       (rq[r].pc = "extract" /\ rq'[r].pc = "catch" /\ rq'[r].err = ToolMissingMsg)
       => /\ disk' = disk
          /\ calls' = calls
          /\ NoCallFor(r, rq[r].i)
  /\ (/\ cli.pc = "extract"
      /\ Len(cli'.errors) = Len(cli.errors) + 1
      /\ cli'.errors[Len(cli'.errors)].error = ToolMissingMsg)
     => /\ disk' = disk
        /\ calls' = calls
        /\ NoCallFor("cli", cli.i)
        /\ cli'.job[cli.i] = "failed"

\* only jobs for video files probe the tool or fail in extraction
OnlyVideoExtracts ==
  /\ \A r \in Reqs :
       /\ rq[r].pc = "extract" => isVideoFile(rq[r].files[rq[r].i])
       /\ rq[r].pc = "catch" /\ ~isVideoFile(rq[r].files[rq[r].i])
          => rq[r].err[1] # ExtractWrap(<<>>)[1]
  /\ cli.pc = "extract" => cliIsVideoFile(cli.valid[cli.i])
  /\ \A n \in 1..Len(cli.errors) :
       cli.errors[n].error[1] = ExtractWrap(<<>>)[1]
       => \E k \in 1..Len(cli.valid) :
            /\ cli.errors[n].file = InputPath(cli.valid[k])
            /\ cliIsVideoFile(cli.valid[k])

C20_ToolMissingFailsEarly == []OnlyVideoExtracts /\ [][ToolMissingStep]_vars

\* a batch whose first file, an audio file, was transcribed and whose second
\* file, a video, has just failed at the version probe: nothing was written
\* for it and no remote call was made for it
C20_Witness ==
  \E r \in Reqs :
    /\ rq[r].kind = "batch"
    /\ rq[r].pc = "catch"
    /\ rq[r].i = 2
    /\ rq[r].job[1] = "ok"
    /\ isAudioFile(rq[r].files[1])
    /\ isVideoFile(rq[r].files[2])
    /\ rq[r].err = ToolMissingMsg
    /\ rq[r].audioFilePath \notin disk
    /\ NoCallFor(r, 2)

(***************************************************************************)
(* The command line tool against a remote whose answers to the status      *)
(* checks are scripted                                                     *)
(***************************************************************************)
MaxScript == 4

\* the scripts: up to MaxScript statuses, one of them at least not in flight
Scripts ==
  { sc \in SeqUpTo(Statuses, MaxScript) :
      \E n \in 1..Len(sc) : sc[n] \notin InFlight }

InitScripted ==
  /\ calls = <<>>
  /\ rmFailed = FALSE
  /\ pure = NoPure
  /\ rq = [r \in Reqs |-> NoRequest]
  /\ \E arg \in CliArgs : \E sc \in Scripts :
       /\ cli = [CliRun(<<arg>>) EXCEPT !.script = sc]
       /\ disk = IF arg.exists THEN {InputPath(arg)} ELSE {}

SpecScripted == InitScripted /\ [][CliNext]_vars

(***************************************************************************)
(* C13  In the poll loop of the command line tool, for a scripted sequence *)
(* of remote statuses, the loop returns only after it observed the first   *)
(* status that is not in flight, the number of status checks issued is the *)
(* position of that status in the script (4 for queued, processing,        *)
(* processing, completed), and no status check follows it.                 *)
(***************************************************************************)
\* position of the first status of sc that is not in flight
FirstTerminal(sc) == Min({ n \in 1..Len(sc) : sc[n] \notin InFlight })

\* number of status checks issued so far
StatusChecks == Cardinality({ n \in 1..Len(calls) : calls[n].op = "get" })

\* the loop was entered with a status in flight and has observed one that is not
LoopReturned ==
  /\ cli.created \in InFlight
  /\ cli.transcript.status \notin (InFlight \cup {"none"})

C13_PollLoopChecks ==
  /\ StatusChecks <= FirstTerminal(cli.script)
  /\ (cli.pc = "poll" /\ cli.created \notin InFlight) => StatusChecks = 0
  /\ cli.pc \in {"write2", "write3", "write4", "cleanup"}
       => cli.transcript.status \notin InFlight
  /\ LoopReturned =>
       /\ StatusChecks = FirstTerminal(cli.script)
       /\ cli.polls = StatusChecks
       /\ cli.transcript.status = cli.script[StatusChecks]
  /\ (LoopReturned /\ cli.script = <<"queued", "processing", "processing", "completed">>)
       => StatusChecks = 4

\* the script queued, processing, processing, completed was played to its end
\* and the transcript is being saved
C13_Witness ==
  /\ cli.script = <<"queued", "processing", "processing", "completed">>
  /\ cli.created = "queued"
  /\ cli.pc = "write4"
  /\ cli.transcript.status = "completed"
  /\ StatusChecks = 4

(***************************************************************************)
(* The timestamp of an utterance, as each copy of the persisting code      *)
(* renders it.  Text is a sequence of one-character strings.               *)
(***************************************************************************)
MaxMinutes == 2

DigitChars == <<"0", "1", "2", "3", "4", "5", "6", "7", "8", "9">>

\* Number.prototype.toString() of a non-negative integer
RECURSIVE NumberToString(_)
NumberToString(n) ==
  IF n < 10 THEN <<DigitChars[n + 1]>>
  ELSE NumberToString(n \div 10) \o <<DigitChars[(n % 10) + 1]>>

\* String.prototype.padStart(targetLength, padString) for a one-character pad
RECURSIVE PadStart(_, _, _)
PadStart(str, targetLength, padString) ==
  IF Len(str) >= targetLength THEN str
  ELSE PadStart(<<padString>> \o str, targetLength, padString)

\* server.js lines 264-268 without the padding of the seconds
uploadTimeFormat_NoPad(start) ==
  LET startTime == start \div 1000
      startMinutes == startTime \div 60
      startSeconds == startTime % 60
      timeFormat == NumberToString(startMinutes) \o <<":">> \o NumberToString(startSeconds)
  IN <<"[">> \o timeFormat \o <<"]">>

\* server.js lines 264-268 (POST /upload)
uploadTimeFormat(start) ==
  LET startTime == start \div 1000
      startMinutes == startTime \div 60
      startSeconds == startTime % 60
      timeFormat == NumberToString(startMinutes) \o <<":">>
                      \o PadStart(NumberToString(startSeconds), 2, "0")
  IN <<"[">> \o timeFormat \o <<"]">>

\* server.js lines 459-463 (POST /upload/batch)
batchTimeFormat(start) ==
  LET startTime == start \div 1000
      startMinutes == startTime \div 60
      startSeconds == startTime % 60
      timeFormat == NumberToString(startMinutes) \o <<":">>
                      \o PadStart(NumberToString(startSeconds), 2, "0")
  IN <<"[">> \o timeFormat \o <<"]">>

\* cli-transcriber.js lines 214-218
cliTimeFormat(start) ==
  LET startTime == start \div 1000
      startMinutes == startTime \div 60
      startSeconds == startTime % 60
      timeFormat == NumberToString(startMinutes) \o <<":">>
                      \o PadStart(NumberToString(startSeconds), 2, "0")
  IN <<"[">> \o timeFormat \o <<"]">>

\* the start offsets tried, in milliseconds: every second of the minutes
\* 0..MaxMinutes and of the minutes around 10 and 60, at both ends of the second
StartMinutes == (0..MaxMinutes) \cup {9, 10, 59, 60, 61}

StartOffsets ==
  { (m * 60 + sec) * 1000 + ms : m \in StartMinutes, sec \in 0..59, ms \in {0, 999} }

InitStamp ==
  /\ disk = {}
  /\ rq = [r \in Reqs |-> NoRequest]
  /\ calls = <<>>
  /\ rmFailed = FALSE
  /\ cli = CliOff
  /\ \E start \in StartOffsets : pure = [NoPure EXCEPT !.kind = "stamp", !.in = start]

Stamp_Upload ==
  /\ pure.kind = "stamp"
  /\ pure.out["upload"] = <<>>
  /\ pure' = [pure EXCEPT !.out["upload"] = uploadTimeFormat(pure.in)]
  /\ UNCHANGED <<disk, rq, calls, rmFailed, cli>>

Stamp_Batch ==
  /\ pure.kind = "stamp"
  /\ pure.out["batch"] = <<>>
  /\ pure' = [pure EXCEPT !.out["batch"] = batchTimeFormat(pure.in)]
  /\ UNCHANGED <<disk, rq, calls, rmFailed, cli>>

Stamp_Cli ==
  /\ pure.kind = "stamp"
  /\ pure.out["cli"] = <<>>
  /\ pure' = [pure EXCEPT !.out["cli"] = cliTimeFormat(pure.in)]
  /\ UNCHANGED <<disk, rq, calls, rmFailed, cli>>

NextStamp == Stamp_Upload \/ Stamp_Batch \/ Stamp_Cli

SpecStamp == InitStamp /\ [][NextStamp]_vars

(***************************************************************************)
(* C18  For every start offset s in milliseconds the timestamp is [M:SS]:  *)
(* M is floor(floor(s/1000)/60) written without padding and without hours, *)
(* SS is floor(s/1000) mod 60 written with two digits; 125000 gives [2:05],*)
(* 59000 gives [0:59], 3605000 gives [60:05]; the three copies of the code *)
(* give the same text.                                                     *)
(***************************************************************************)
\* the number a sequence of digit characters denotes
RECURSIVE ValueOf(_)
ValueOf(str) ==
  IF str = <<>> THEN 0
  ELSE ValueOf(SubSeq(str, 1, Len(str) - 1)) * 10
         + (CHOOSE d \in 0..9 : DigitChars[d + 1] = str[Len(str)])

IsDigits(str) ==
  /\ Len(str) >= 1
  /\ \A n \in 1..Len(str) : \E d \in 1..10 : str[n] = DigitChars[d]

\* text is [M:SS] for the offset start
IsStampOf(text, start) ==
  /\ Len(text) >= 6
  /\ text[1] = "["
  /\ text[Len(text)] = "]"
  /\ text[Len(text) - 3] = ":"
  /\ LET minutes == SubSeq(text, 2, Len(text) - 4)
         seconds == SubSeq(text, Len(text) - 2, Len(text) - 1)
     IN /\ IsDigits(minutes)
        /\ IsDigits(seconds)
        /\ Len(minutes) > 1 => minutes[1] # "0"
        /\ ValueOf(minutes) = (start \div 1000) \div 60
        /\ ValueOf(seconds) = (start \div 1000) % 60

C18_TimestampFormat ==
  pure.kind = "stamp" =>
    \A impl \in Impls :
      pure.out[impl] # <<>> =>
        /\ IsStampOf(pure.out[impl], pure.in)
        /\ pure.in = 125000 => pure.out[impl] = <<"[", "2", ":", "0", "5", "]">>
        /\ pure.in = 59000 => pure.out[impl] = <<"[", "0", ":", "5", "9", "]">>
        /\ pure.in = 3605000 => pure.out[impl] = <<"[", "6", "0", ":", "0", "5", "]">>
        /\ \A other \in Impls :
             pure.out[other] # <<>> => pure.out[other] = pure.out[impl]

\* the offset 3605000 ms was rendered by the three copies as [60:05]
C18_Witness ==
  /\ pure.kind = "stamp"
  /\ pure.in = 3605000
  /\ \A impl \in Impls : pure.out[impl] = <<"[", "6", "0", ":", "0", "5", "]">>

(***************************************************************************)
(* The full JSON document, as each copy of the persisting code builds it.  *)
(* An object is the sequence of its <<key, value>> pairs in insertion      *)
(* order.                                                                  *)
(***************************************************************************)
\* what a field of the transcript may hold: nothing, null, or a value
FieldValues == {"undefined", "null", "a"}

TranscriptFields ==
  <<"text", "utterances", "words", "confidence", "audio_duration", "language_code">>

\* the transcripts tried
TranscriptResults ==
  [ { TranscriptFields[n] : n \in 1..Len(TranscriptFields) } -> FieldValues ]

\* JSON.stringify(value, null, 2) of an object: members in insertion order,
\* a member whose value is undefined is left out
JSONstringify(object) == SelectSeq(object, LAMBDA member : member[2] # "undefined")

\* server.js lines 278-284 (POST /upload)
uploadFullData(finalTranscript) ==
  << <<"text", finalTranscript["text"]>>,
     <<"utterances", finalTranscript["utterances"]>>,
     <<"words", finalTranscript["words"]>>,
     <<"confidence", finalTranscript["confidence"]>>,
     <<"audio_duration", finalTranscript["audio_duration"]>> >>

\* server.js lines 473-479 (POST /upload/batch)
batchFullData(finalTranscript) ==
  << <<"text", finalTranscript["text"]>>,
     <<"utterances", finalTranscript["utterances"]>>,
     <<"words", finalTranscript["words"]>>,
     <<"confidence", finalTranscript["confidence"]>>,
     <<"audio_duration", finalTranscript["audio_duration"]>> >>

\* cli-transcriber.js lines 225-232
cliFullData(finalTranscript) ==
  << <<"text", finalTranscript["text"]>>,
     <<"utterances", finalTranscript["utterances"]>>,
     <<"words", finalTranscript["words"]>>,
     <<"confidence", finalTranscript["confidence"]>>,
     <<"audio_duration", finalTranscript["audio_duration"]>>,
     <<"language_code", finalTranscript["language_code"]>> >>

InitJson ==
  /\ disk = {}
  /\ rq = [r \in Reqs |-> NoRequest]
  /\ calls = <<>>
  /\ rmFailed = FALSE
  /\ cli = CliOff
  /\ \E t \in TranscriptResults : pure = [NoPure EXCEPT !.kind = "json", !.in = t]

Json_Upload ==
  /\ pure.kind = "json"
  /\ pure.out["upload"] = <<>>
  /\ pure' = [pure EXCEPT !.out["upload"] = JSONstringify(uploadFullData(pure.in))]
  /\ UNCHANGED <<disk, rq, calls, rmFailed, cli>>

Json_Batch ==
  /\ pure.kind = "json"
  /\ pure.out["batch"] = <<>>
  /\ pure' = [pure EXCEPT !.out["batch"] = JSONstringify(batchFullData(pure.in))]
  /\ UNCHANGED <<disk, rq, calls, rmFailed, cli>>

Json_Cli ==
  /\ pure.kind = "json"
  /\ pure.out["cli"] = <<>>
  /\ pure' = [pure EXCEPT !.out["cli"] = JSONstringify(cliFullData(pure.in))]
  /\ UNCHANGED <<disk, rq, calls, rmFailed, cli>>

NextJson == Json_Upload \/ Json_Batch \/ Json_Cli

SpecJson == InitJson /\ [][NextJson]_vars

(***************************************************************************)
(* C19  The full JSON document written for a completed transcript has the  *)
(* members text, utterances, words, confidence, audio_duration and         *)
(* language_code, in that order, each with the value the transcript holds, *)
(* in the two server handlers and in the command line tool.                *)
(***************************************************************************)
\* every field of transcript t holds something
AllDefined(t) == \A n \in 1..Len(TranscriptFields) : t[TranscriptFields[n]] # "undefined"

\* the document with the six members of t in the stated order
SixMembers(t) == [n \in 1..Len(TranscriptFields) |-> <<TranscriptFields[n], t[TranscriptFields[n]]>>]

C19_FullJsonFields ==
  (pure.kind = "json" /\ AllDefined(pure.in)) =>
    \A impl \in Impls :
      pure.out[impl] # <<>> => pure.out[impl] = SixMembers(pure.in)

(***************************************************************************)
(* Batch requests of every size around the limit of upload.array           *)
(***************************************************************************)
MaxBatch == 11

\* the accepted audio files
AudioFiles == { f \in ServerFiles : fileFilter(f) /\ isAudioFile(f) }

\* the batches tried: 0..MaxBatch files, copies of an audio file except the
\* last one, which is any file
BatchesBySize ==
  { [k \in 1..n |-> IF k = n THEN g ELSE f] :
      n \in 0..MaxBatch, f \in AudioFiles, g \in ServerFiles }

InitBatchSize ==
  /\ \E files \in BatchesBySize :
       rq = [r \in Reqs |-> IF r = "r1" THEN NewRequest("batch", files) ELSE NoRequest]
  /\ cli = CliOff
  /\ disk = {}
  /\ calls = <<>>
  /\ rmFailed = FALSE
  /\ pure = NoPure

NextBatchSize == \E r \in Reqs : BatchNext(r)

SpecBatchSize == InitBatchSize /\ [][NextBatchSize]_vars

(***************************************************************************)
(* C21  A batch request is processed only if it has 1 to 10 files: with no *)
(* file, and with more than 10 files, it is answered with status 400 and   *)
(* an error, no job is run and no remote call is made.                     *)
(***************************************************************************)
\* no job of request r has started
NoJobRun(r) == \A k \in 1..Len(rq[r].files) : rq[r].job[k] = "pending"

\* request r was answered once, with status 400 and an error message
Answered400(r) ==
  /\ Len(rq[r].responses) = 1
  /\ rq[r].responses[1].status = 400
  /\ rq[r].responses[1].error # <<>>

C21_BatchSizeLimit ==
  \A r \in Reqs :
    rq[r].kind = "batch" =>
      /\ (Len(rq[r].files) = 0 \/ Len(rq[r].files) > BatchLimit) =>
           /\ NoJobRun(r)
           /\ NoCallFor(r, 1)
           /\ calls = <<>>
           /\ rq[r].pc \in {"multer", "handler", "done"}
           /\ rq[r].pc = "done" => Answered400(r)
      /\ ~NoJobRun(r) => Len(rq[r].files) \in 1..BatchLimit

\* a request with 11 files of an accepted type was answered with 400 and
\* nothing was called
C21_Witness ==
  \E r \in Reqs :
    /\ rq[r].kind = "batch"
    /\ Len(rq[r].files) = BatchLimit + 1
    /\ Rejected(rq[r].files) = {}
    /\ rq[r].pc = "done"
    /\ Answered400(r)
    /\ NoJobRun(r)
    /\ calls = <<>>

(***************************************************************************)
(* The job configuration the command line tool builds from its options.    *)
(* Flags hold "true", "false" or "undefined"; numbers are typed as text.   *)
(***************************************************************************)
MaxSpeakers == 3

\* what can be typed after -s: 1..MaxSpeakers and a number of two digits
SpeakerArgs == { NumberToString(n) : n \in (1..MaxSpeakers) \cup {10} }

\* the options object commander passes to the action (lines 311-320):
\* language and speakers have defaults, --no-punctuate makes punctuate
\* "true" unless given, the other flags are undefined unless given
CommandOptions ==
  [ language : {<<"r", "u">>, <<"e", "n">>},
    speakers : {<<"2">>} \cup SpeakerArgs,
    punctuate : {"true", "false"},
    formatText : {"undefined", "true"},
    dualChannel : {"undefined", "true"} ]

\* parseInt of a text of digits
parseInt(str) == ValueOf(str)

\* lines 338-344
processOptions(options) ==
  [ language |-> options.language,
    speakers |-> parseInt(options.speakers),
    punctuate |-> options.punctuate,
    formatText |-> options.formatText,
    dualChannel |-> options.dualChannel ]

\* lines 141-151: the members of transcriptionConfig in insertion order;
\* the line that set speakers_expected is commented out (line 145)
transcriptionConfig(options) ==
  << <<"audio_url", "upload-url">>,
     <<"language_code", options.language>>,
     <<"speaker_labels", "true">> >>
  \o (IF options.punctuate # "undefined"
      THEN << <<"punctuate", options.punctuate>> >> ELSE <<>>)
  \o (IF options.formatText # "undefined"
      THEN << <<"format_text", options.formatText>> >> ELSE <<>>)
  \o (IF options.dualChannel # "undefined"
      THEN << <<"dual_channel", options.dualChannel>> >> ELSE <<>>)

InitConfig ==
  /\ disk = {}
  /\ rq = [r \in Reqs |-> NoRequest]
  /\ calls = <<>>
  /\ rmFailed = FALSE
  /\ cli = CliOff
  /\ \E options \in CommandOptions :
       pure = [NoPure EXCEPT !.kind = "config", !.in = options]

Config_Cli ==
  /\ pure.kind = "config"
  /\ pure.out["cli"] = <<>>
  /\ pure' = [pure EXCEPT !.out["cli"] = transcriptionConfig(processOptions(pure.in))]
  /\ UNCHANGED <<disk, rq, calls, rmFailed, cli>>

SpecConfig == InitConfig /\ [][Config_Cli]_vars

(***************************************************************************)
(* C22  The value given to -s/--speakers (default 2) determines the        *)
(* speakers_expected member of the job configuration sent to the remote    *)
(* service.                                                                *)
(***************************************************************************)
C22_SpeakersExpected ==
  (pure.kind = "config" /\ pure.out["cli"] # <<>>) =>
    \E n \in 1..Len(pure.out["cli"]) :
      /\ pure.out["cli"][n][1] = "speakers_expected"
      /\ pure.out["cli"][n][2] = parseInt(pure.in.speakers)

(***************************************************************************)
(* C23  The steps of a job occur only in the order classify, [extract],    *)
(* remote upload, job creation, waiting, persisting, cleanup, report: the  *)
(* job is created only after the remote upload succeeded, persisting is    *)
(* entered only after the remote job was observed completed, and success   *)
(* is reported only after the output writes and the cleanup.               *)
(***************************************************************************)
\* the positions in the call log of the calls op of job k of requester who
CallsOf(who, k, op) ==
  { n \in 1..Len(calls) : calls[n].who = <<who, k>> /\ calls[n].op = op }

\* in the call log every creation follows an upload of the same job and
\* every wait or status check follows its creation
CallsInOrder(who, k) ==
  /\ \A c \in CallsOf(who, k, "create") : \E u \in CallsOf(who, k, "upload") : u < c
  /\ \A w \in CallsOf(who, k, "wait") \cup CallsOf(who, k, "get") :
       \E c \in CallsOf(who, k, "create") : c < w

\* the pcs of the persisting step and of what follows it in a server job
PersistingOrLater == {"write1", "write2", "write3", "write4", "rm1", "rm2", "respond", "push"}

C23_StepOrder ==
  /\ \A r \in Reqs : \A k \in 1..Len(rq[r].files) :
       /\ CallsInOrder(r, k)
       /\ (rq[r].i = k /\ rq[r].pc \in PersistingOrLater)
            => rq[r].transcript.status = "completed"
       /\ rq[r].job[k] = "ok" =>
            /\ OutPath(rq[r].files[k], 1) \in disk
            /\ OutPath(rq[r].files[k], 4) \in disk
  /\ \A k \in 1..Len(cli.valid) :
       /\ CallsInOrder("cli", k)
       /\ (cli.i = k /\ cli.pc \in {"write2", "write3", "write4", "cleanup"})
            => cli.transcript.status = "completed"

(***************************************************************************)
(* C24  Extraction is performed if and only if the file is classified as   *)
(* video; the file uploaded to the remote service is the extracted audio   *)
(* for a video job, never the original video, and the original file for    *)
(* any other job.                                                          *)
(***************************************************************************)
\* the path a server job must upload
ServerUploadPath(r, k) ==
  IF isVideoFile(rq[r].files[k])
  THEN (IF rq[r].kind = "single" THEN UploadTempPath(rq[r].files[k])
        ELSE BatchTempPath(rq[r].files[k], k))
  ELSE PathOf(r, k)

\* the path a job of the command line tool must upload
CliUploadPath(k) ==
  IF cliIsVideoFile(cli.valid[k]) THEN CliTempPath(cli.valid[k])
  ELSE InputPath(cli.valid[k])

\* what is uploaded, and who is in extraction
UploadsTheAudio ==
  /\ \A n \in 1..Len(calls) :
       calls[n].op = "upload" =>
         IF calls[n].who[1] = "cli"
         THEN /\ calls[n].path = CliUploadPath(calls[n].who[2])
              /\ cliIsVideoFile(cli.valid[calls[n].who[2]])
                   => calls[n].path # InputPath(cli.valid[calls[n].who[2]])
         ELSE /\ calls[n].path = ServerUploadPath(calls[n].who[1], calls[n].who[2])
              /\ isVideoFile(rq[calls[n].who[1]].files[calls[n].who[2]])
                   => calls[n].path # PathOf(calls[n].who[1], calls[n].who[2])
  /\ \A r \in Reqs : rq[r].pc = "extract" => isVideoFile(rq[r].files[rq[r].i])
  /\ cli.pc = "extract" => cliIsVideoFile(cli.valid[cli.i])

\* a job arrives at the remote upload from extraction exactly when its file
\* is a video
ExtractsIffVideo ==
  /\ \A r \in Reqs :
       (rq'[r].pc = "upload" /\ rq[r].pc # "upload")
         => (isVideoFile(rq'[r].files[rq'[r].i]) <=> rq[r].pc = "extract")
  /\ (cli'.pc = "upload" /\ cli.pc # "upload")
       => (cliIsVideoFile(cli'.valid[cli'.i]) <=> cli.pc = "extract")

C24_ExtractionForVideoOnly == []UploadsTheAudio /\ [][ExtractsIffVideo]_vars

\* a single-file job for a video has uploaded the extracted audio
C24_Witness ==
  \E r \in Reqs :
    /\ rq[r].kind = "single"
    /\ rq[r].pc = "create"
    /\ isVideoFile(rq[r].files[1])
    /\ Len(calls) = 1
    /\ calls[1].op = "upload"
    /\ calls[1].path = UploadTempPath(rq[r].files[1])
    /\ calls[1].path # PathOf(r, 1)

(***************************************************************************)
(* The scripted run under the scheduling of the event loop: a continuation *)
(* whose awaited promise has settled is run                                *)
(***************************************************************************)
SpecScriptedFair == SpecScripted /\ WF_vars(CliNext)

(***************************************************************************)
(* C25  The poll loop of the command line tool ends when, and only when, a *)
(* status check answers a status other than queued or processing: if the   *)
(* remote job reaches such a status the job eventually returns a result;   *)
(* there is no local limit, so while the status is in flight the loop can  *)
(* do nothing but check again.                                             *)
(***************************************************************************)
\* while the status is in flight the next status check is due, whatever the
\* number of checks made so far, and nothing else can happen
KeepsChecking ==
  (cli.pc = "poll" /\ cli.transcript.status \in InFlight) =>
    /\ ENABLED Cli_Poll
    /\ ~ENABLED Cli_WriteText

\* the loop is left without an exception only on a status not in flight
LeavesOnTerminalOnly ==
  (cli.pc = "poll" /\ cli'.pc # "poll" /\ calls' = calls)
    => cli.transcript.status \notin InFlight

\* the job in the loop ends with a result or an error
JobReturns ==
  (cli.pc = "poll") ~> (Len(cli.results) + Len(cli.errors) = 1)

Labelled(msg, label, detail) == msg = <<label>> \o detail

\* the error this step of the command line tool records, if it records one
CliRecordsError == Len(cli'.errors) = Len(cli.errors) + 1

CliNewError == cli'.errors[Len(cli'.errors)].error

\* a step of the command line tool that fails reports its own label
CliReportsStep ==
  /\ (cli.pc \in {"upload", "upload2"} /\ CliRecordsError)
       => Labelled(CliNewError, "Upload failed: ", SdkUploadMsg)
  /\ (cli.pc = "create" /\ CliRecordsError)
       => Labelled(CliNewError, "Transcription request failed: ", SdkCreateMsg)
  /\ (cli.pc = "extract" /\ CliRecordsError)
       => \E o \in ExtractOutcomes :
            Labelled(CliNewError, "Failed to extract audio from video: ", ExtractError(o))

\* a single-file request that ends after a failure answers with the error
\* that was thrown
ServerReportsDetail ==
  \A r \in Reqs :
    (rq[r].kind = "single" /\ rq[r].pc = "catch2" /\ rq'[r].pc # "catch2")
      => /\ Len(rq'[r].responses) = Len(rq[r].responses) + 1
         /\ rq'[r].responses[Len(rq'[r].responses)].details = rq[r].err

C26_ErrorNamesStep == [][CliReportsStep /\ ServerReportsDetail]_vars

(***************************************************************************)
(* The speaker and the timestamp file, as each copy of the persisting code *)
(* builds them.  A text is a sequence of pieces: the literal parts of the  *)
(* template, the values put into it, and the characters of the time.       *)
(***************************************************************************)
MaxUtterances == 2

Utterances ==
  [ speaker : {"A", "B"}, text : {"hi", "ok"}, start : {5000, 65000} ]

\* the non-empty utterance lists tried
UtteranceLists == SeqUpTo(Utterances, MaxUtterances) \ {<<>>}

\* Array.prototype.map
Map(array, Fn(_)) == [n \in 1..Len(array) |-> Fn(array[n])]

\* Array.prototype.join of an array of texts
RECURSIVE Join(_, _)
Join(array, separator) ==
  IF array = <<>> THEN <<>>
  ELSE IF Len(array) = 1 THEN array[1]
  ELSE array[1] \o <<separator>> \o Join(Tail(array), separator)

\* server.js lines 256-258 with a single line feed between the entries
uploadSpeakerText_SingleLineFeed(utterances) ==
  LET Entry(utterance) == <<"Speaker ", utterance.speaker, ": ", utterance.text>>
  IN Join(Map(utterances, Entry), "\n")

\* server.js lines 256-258 (POST /upload)
uploadSpeakerText(utterances) ==
  LET Entry(utterance) == <<"Speaker ", utterance.speaker, ": ", utterance.text>>
  IN Join(Map(utterances, Entry), "\n\n")

\* server.js lines 451-453 (POST /upload/batch)
batchSpeakerText(utterances) ==
  LET Entry(utterance) == <<"Speaker ", utterance.speaker, ": ", utterance.text>>
  IN Join(Map(utterances, Entry), "\n\n")

\* cli-transcriber.js lines 206-208
cliSpeakerText(utterances) ==
  LET Entry(utterance) == <<"Speaker ", utterance.speaker, ": ", utterance.text>>
  IN Join(Map(utterances, Entry), "\n\n")

\* server.js lines 262-270 (POST /upload)
uploadTimestampText(utterances) ==
  LET Entry(utterance) ==
        uploadTimeFormat(utterance.start)
          \o <<" ", "Speaker ", utterance.speaker, ": ", utterance.text>>
  IN Join(Map(utterances, Entry), "\n\n")

\* server.js lines 457-465 (POST /upload/batch)
batchTimestampText(utterances) ==
  LET Entry(utterance) ==
        batchTimeFormat(utterance.start)
          \o <<" ", "Speaker ", utterance.speaker, ": ", utterance.text>>
  IN Join(Map(utterances, Entry), "\n\n")

\* cli-transcriber.js lines 212-220
cliTimestampText(utterances) ==
  LET Entry(utterance) ==
        cliTimeFormat(utterance.start)
          \o <<" ", "Speaker ", utterance.speaker, ": ", utterance.text>>
  IN Join(Map(utterances, Entry), "\n\n")

InitEntries ==
  /\ disk = {}
  /\ rq = [r \in Reqs |-> NoRequest]
  /\ calls = <<>>
  /\ rmFailed = FALSE
  /\ cli = CliOff
  /\ \E kind \in {"speakers", "timestamps"} : \E utterances \in UtteranceLists :
       pure = [NoPure EXCEPT !.kind = kind, !.in = utterances]

Entries_Upload ==
  /\ pure.kind \in {"speakers", "timestamps"}
  /\ pure.out["upload"] = <<>>
  /\ pure' = [pure EXCEPT !.out["upload"] =
                IF pure.kind = "speakers" THEN uploadSpeakerText(pure.in)
                ELSE uploadTimestampText(pure.in)]
  /\ UNCHANGED <<disk, rq, calls, rmFailed, cli>>

Entries_Batch ==
  /\ pure.kind \in {"speakers", "timestamps"}
  /\ pure.out["batch"] = <<>>
  /\ pure' = [pure EXCEPT !.out["batch"] =
                IF pure.kind = "speakers" THEN batchSpeakerText(pure.in)
                ELSE batchTimestampText(pure.in)]
  /\ UNCHANGED <<disk, rq, calls, rmFailed, cli>>

Entries_Cli ==
  /\ pure.kind \in {"speakers", "timestamps"}
  /\ pure.out["cli"] = <<>>
  /\ pure' = [pure EXCEPT !.out["cli"] =
                IF pure.kind = "speakers" THEN cliSpeakerText(pure.in)
                ELSE cliTimestampText(pure.in)]
  /\ UNCHANGED <<disk, rq, calls, rmFailed, cli>>

NextEntries == Entries_Upload \/ Entries_Batch \/ Entries_Cli

SpecEntries == InitEntries /\ [][NextEntries]_vars

(***************************************************************************)
(* C27  The speaker file and the timestamp file hold one entry for each    *)
(* utterance, in the order of the utterances, the entries separated by one *)
(* blank line, each entry being 'Speaker <label>: <text>', preceded in the *)
(* timestamp file by the [M:SS] start time.                                *)
(***************************************************************************)
\* the entries of a text: its parts between the blank lines
RECURSIVE SplitEntries(_)
SplitEntries(text) ==
  IF \A n \in 1..Len(text) : text[n] # "\n\n" THEN <<text>>
  ELSE LET cut == Min({ n \in 1..Len(text) : text[n] = "\n\n" })
       IN <<SubSeq(text, 1, cut - 1)>> \o SplitEntries(SubSeq(text, cut + 1, Len(text)))

\* entry is 'Speaker <label>: <text>' of utterance u
IsSpeakerEntry(entry, u) == entry = <<"Speaker ", u.speaker, ": ", u.text>>

\* entry is '[M:SS] Speaker <label>: <text>' of utterance u
IsTimestampEntry(entry, u) ==
  /\ Len(entry) > 5
  /\ IsStampOf(SubSeq(entry, 1, Len(entry) - 5), u.start)
  /\ entry[Len(entry) - 4] = " "
  /\ IsSpeakerEntry(SubSeq(entry, Len(entry) - 3, Len(entry)), u)

C27_OneEntryPerUtterance ==
  pure.kind \in {"speakers", "timestamps"} =>
    \A impl \in Impls :
      pure.out[impl] # <<>> =>
        LET entries == SplitEntries(pure.out[impl])
        IN /\ Len(entries) = Len(pure.in)
           /\ \A n \in 1..Len(entries) :
                /\ \A m \in 1..Len(entries[n]) : entries[n][m] # "\n"
                /\ IF pure.kind = "speakers"
                   THEN IsSpeakerEntry(entries[n], pure.in[n])
                   ELSE IsTimestampEntry(entries[n], pure.in[n])

\* the three copies wrote the timestamp file of two utterances
C27_Witness ==
  /\ pure.kind = "timestamps"
  /\ pure.in = << [speaker |-> "A", text |-> "hi", start |-> 5000],
                  [speaker |-> "B", text |-> "ok", start |-> 65000] >>
  /\ \A impl \in Impls :
       pure.out[impl] =
         <<"[", "0", ":", "0", "5", "]", " ", "Speaker ", "A", ": ", "hi", "\n\n",
           "[", "1", ":", "0", "5", "]", " ", "Speaker ", "B", ": ", "ok">>

(***************************************************************************)
(* C28  The output files of a job are never shared with or overwritten by  *)
(* another job: two jobs reported successful reference distinct output     *)
(* files, also when their original names have the same base name.          *)
(***************************************************************************)
\* no two records of the list of successful jobs refer to a common file
DistinctOutputs(results) ==
  \A n, m \in 1..Len(results) :
    n # m => results[n].files \cap results[m].files = {}

C28_OutputsNotShared ==
  /\ \A r \in Reqs :
       /\ DistinctOutputs(rq[r].results)
       /\ \A n \in 1..Len(rq[r].responses) : DistinctOutputs(rq[r].responses[n].results)
  /\ DistinctOutputs(cli.results)

(***************************************************************************)
(* GET /download/<filepath>.  A text is a sequence of pieces: names,       *)
(* "..", the separator "/" and its encoded forms.  A path is a sequence of *)
(* segments, each segment the sequence of the pieces of its name.          *)
(***************************************************************************)
MaxPathLen == 4

\* the pieces a requested path is made of
PathPieces == {"a", "a.txt", "server.js", "..", "/", "%2F", "%252F"}

RequestedPaths == SeqUpTo(PathPieces, MaxPathLen) \ {<<>>}

\* __dirname and path.join(__dirname, 'transcriptions') (line 27)
dirname == << <<"app">> >>

transcriptionsDir == dirname \o << <<"transcriptions">> >>

\* the files and the directories that exist
ExistingFiles ==
  { transcriptionsDir \o << <<"a">>, <<"a.txt">> >>,
    dirname \o << <<"server.js">> >> }

ExistingDirs ==
  { dirname, transcriptionsDir, transcriptionsDir \o << <<"a">> >> }

\* fs.existsSync(path)
existsSync(path) == path \in ExistingFiles \cup ExistingDirs

\* decodeURIComponent, piece by piece
decodeURIComponent(text) ==
  [n \in 1..Len(text) |->
     IF text[n] = "%2F" THEN "/"
     ELSE IF text[n] = "%252F" THEN "%2F"
     ELSE text[n]]

\* the segments of a text: its parts between the separators
RECURSIVE Segments(_)
Segments(text) ==
  IF \A n \in 1..Len(text) : text[n] # "/" THEN <<text>>
  ELSE LET cut == Min({ n \in 1..Len(text) : text[n] = "/" })
       IN <<SubSeq(text, 1, cut - 1)>> \o Segments(SubSeq(text, cut + 1, Len(text)))

\* path.normalize of dir followed by segments: an empty segment is dropped,
\* ".." removes the segment before it
RECURSIVE Normalize(_, _)
Normalize(dir, segments) ==
  IF segments = <<>> THEN dir
  ELSE IF Head(segments) = <<>> THEN Normalize(dir, Tail(segments))
  ELSE IF Head(segments) = <<"..">>
  THEN Normalize(IF dir = <<>> THEN dir ELSE SubSeq(dir, 1, Len(dir) - 1), Tail(segments))
  ELSE Normalize(Append(dir, Head(segments)), Tail(segments))

\* path.join(dir, text)
pathJoin(dir, text) == Normalize(dir, Segments(text))

NoDownload == [status |-> 0, file |-> <<>>]

InitDownload ==
  /\ disk = {}
  /\ rq = [r \in Reqs |-> NoRequest]
  /\ calls = <<>>
  /\ rmFailed = FALSE
  /\ cli = CliOff
  /\ \E url \in RequestedPaths :
       pure = [kind |-> "download", in |-> url, pc |-> "route",
               params |-> <<>>, response |-> NoDownload]

\* the router decodes the matched parameter (req.params.filepath)
Download_Route ==
  /\ pure.kind = "download"
  /\ pure.pc = "route"
  /\ pure' = [pure EXCEPT !.params = decodeURIComponent(pure.in), !.pc = "handler"]
  /\ UNCHANGED <<disk, rq, calls, rmFailed, cli>>

\* lines 587-596: decode again, join, test existence, send or answer 404;
\* res.download of a directory passes the request on, which ends in a 404
Download_Handler ==
  /\ pure.kind = "download"
  /\ pure.pc = "handler"
  /\ LET filepath == decodeURIComponent(pure.params)
         filePath == pathJoin(transcriptionsDir, filepath)
     IN pure' = [pure EXCEPT !.pc = "done",
                   !.response =
                      IF existsSync(filePath) /\ filePath \in ExistingFiles
                      THEN [status |-> 200, file |-> filePath]
                      ELSE [status |-> 404, file |-> <<>>]]
  /\ UNCHANGED <<disk, rq, calls, rmFailed, cli>>

NextDownload == Download_Route \/ Download_Handler

SpecDownload == InitDownload /\ [][NextDownload]_vars

(***************************************************************************)
(* C29  The download endpoint serves only files inside the transcriptions  *)
(* directory: for no requested path, also with ".." segments or encoded    *)
(* separators, is a file outside it returned; a path that names no         *)
(* existing file is answered with 404.                                     *)
(***************************************************************************)
\* path lies inside the transcriptions directory
InsideTranscriptions(path) ==
  /\ Len(path) > Len(transcriptionsDir)
  /\ SubSeq(path, 1, Len(transcriptionsDir)) = transcriptionsDir

C29_DownloadConfined ==
  (pure.kind = "download" /\ pure.pc = "done") =>
    /\ pure.response.status \in {200, 404}
    /\ pure.response.status = 200 =>
         /\ pure.response.file \in ExistingFiles
         /\ InsideTranscriptions(pure.response.file)
    /\ pure.response.status = 404 =>
         pathJoin(transcriptionsDir, decodeURIComponent(pure.params)) \notin ExistingFiles

(***************************************************************************)
(* C30  In processFile of the command line tool the audio file of a job is *)
(* uploaded to the remote service exactly once, before the job is created. *)
(***************************************************************************)
C30_CliUploadsOnce ==
  \A k \in 1..Len(cli.valid) :
    /\ Cardinality(CallsOf("cli", k, "upload")) <= 1
    /\ CallsOf("cli", k, "create") # {} => Cardinality(CallsOf("cli", k, "upload")) = 1

(***************************************************************************)
(* C31  In processFile of the command line tool the persisting step is     *)
(* entered only when the last observed remote status is completed: a       *)
(* status outside queued, processing, completed and error, or a missing    *)
(* status, is never treated as a completed transcript.                     *)
(***************************************************************************)
\* the step from the end of the poll loop into lines 183-202: the plain-text
\* write is attempted (it succeeds, or fs.writeFile throws)
CliEntersPersisting ==
  /\ cli.pc = "poll"
  /\ \/ cli'.pc \in {"write2", "write4"}
     \/ /\ CliRecordsError
        /\ CliNewError \in {FsWriteMsg, FsWriteArgMsg}

C31_PersistOnlyCompleted ==
  [][CliEntersPersisting => cli.transcript.status = "completed"]_vars

(***************************************************************************)
(* Specification: the server classifier applied to one uploaded file       *)
(***************************************************************************)
\* the MIME types a client may declare
DeclaredMimeTypes == allowedTypes \cup {"text/plain"}

\* the extensions an original name may end with
NameExtensions == allowedExtensions \cup {".MP3", ".MP4", ".xyz"}

ClassifiedFiles ==
  { [base |-> "a", ext |-> e, mime |-> m] : e \in NameExtensions, m \in DeclaredMimeTypes }

InitClassify ==
  /\ rq = [r \in Reqs |-> NoRequest]
  /\ cli = CliOff
  /\ disk = {}
  /\ calls = <<>>
  /\ rmFailed = FALSE
  /\ \E file \in ClassifiedFiles :
       pure = [kind |-> "classify", in |-> file, pc |-> "filter",
               video |-> FALSE, audio |-> FALSE, destination |-> ""]

\* lines 36-70: multer accepted the file; storage asks getFileDestination,
\* the handlers ask isVideoFile (lines 195, 400)
Classify_Server ==
  /\ pure.kind = "classify"
  /\ pure.pc = "filter"
  /\ fileFilter(pure.in)
  /\ pure' = [pure EXCEPT !.pc = "stored",
                          !.video = isVideoFile(pure.in),
                          !.audio = isAudioFile(pure.in),
                          !.destination = getFileDestination(pure.in)]
  /\ UNCHANGED <<disk, rq, calls, rmFailed, cli>>

SpecClassify == InitClassify /\ [][Classify_Server]_vars

(***************************************************************************)
(* C32  In the server classifier no pair of MIME type and extension        *)
(* satisfies both isVideoFile and isAudioFile, so the kind of a file, and  *)
(* whether extraction runs, does not depend on the order in which the two  *)
(* predicates are consulted.                                               *)
(***************************************************************************)
C32_KindsDisjoint ==
  (pure.kind = "classify" /\ pure.pc = "stored") =>
    /\ ~(pure.video /\ pure.audio)
    /\ pure.destination = (IF pure.audio THEN "uploads/audio"
                           ELSE IF pure.video THEN "uploads/video"
                           ELSE "uploads")

(***************************************************************************)
(* C33  The transcribe command of the command line tool exits with a       *)
(* non-zero status if and only if at least one of the file arguments given *)
(* on the command line was not transcribed successfully (missing file,     *)
(* unsupported type, or a failure of the pipeline).                        *)
(***************************************************************************)
C33_ExitReflectsArguments ==
  cli.pc = "exited" =>
    (cli.exit # 0 <=> Len(cli.results) < Len(cli.args))

(***************************************************************************)
(* C34  processFile of the command line tool never deletes, moves or       *)
(* overwrites the input file at filePath, on success or on failure; the    *)
(* only file it removes is the extracted-audio file it created itself      *)
(* under temp/.                                                            *)
(***************************************************************************)
\* the input files that existed when the command started are still there
CliInputsKept ==
  cli.pc # "off" =>
    \A k \in 1..Len(cli.args) :
      cli.args[k].exists => InputPath(cli.args[k]) \in disk

\* the file a running job writes by extraction is not its input file
CliExtractsBesideInput ==
  cli.pc = "extract" =>
    /\ cli.audioFilePath = CliTempPath(cli.valid[cli.i])
    /\ cli.audioFilePath # InputPath(cli.valid[cli.i])
    /\ \A j \in 1..4 : OutPath(cli.valid[cli.i], j) # InputPath(cli.valid[cli.i])

\* a step that takes a file away is the cleanup of a video job, and the file
\* is the extracted audio of that job
CliRemovesOwnTempOnly ==
  (cli.pc # "off" /\ disk \ disk' # {}) =>
    /\ cli.pc = "cleanup"
    /\ cliIsVideoFile(cli.valid[cli.i])
    /\ disk \ disk' = {CliTempPath(cli.valid[cli.i])}
    /\ cli'.job[cli.i] = "ok"

C34_InputUntouched ==
  /\ [](CliInputsKept /\ CliExtractsBesideInput)
  /\ [][CliRemovesOwnTempOnly]_vars

\* a run has ended with a transcribed video (its extracted audio removed, its
\* input in place) and with a failed job whose input is in place as well
C34_Witness ==
  /\ cli.pc = "exited"
  /\ \E k \in 1..Len(cli.valid) :
       /\ cli.job[k] = "ok"
       /\ cliIsVideoFile(cli.valid[k])
       /\ CliTempPath(cli.valid[k]) \notin disk
       /\ InputPath(cli.valid[k]) \in disk
  /\ \E k \in 1..Len(cli.valid) :
       /\ cli.job[k] = "failed"
       /\ InputPath(cli.valid[k]) \in disk

(***************************************************************************)
(* Specification: the browser application (TranscriptionApp)               *)
(***************************************************************************)
MaxSelected == 3

MaxPosts == 2

\* the files a user may pick or drop: File.type and whether File.size is
\* over 100 MB
BrowserFiles ==
  { [type |-> "audio/mpeg", large |-> FALSE],
    [type |-> "video/mp4", large |-> FALSE],
    [type |-> "audio/mpeg", large |-> TRUE],
    [type |-> "text/plain", large |-> FALSE] }

\* the FileList of one change or drop event
FileLists == SeqUpTo(BrowserFiles, 2)

validTypes ==
  {"audio/mpeg", "audio/mp3", "audio/wav", "audio/m4a", "audio/aac",
   "video/mp4", "video/avi", "video/mov", "video/wmv", "video/flv",
   "audio/ogg", "video/webm"}

\* Array.prototype.filter with the test of handleFileSelection
RECURSIVE validFiles(_)
validFiles(files) ==
  IF files = <<>> THEN <<>>
  ELSE IF Head(files).type \in validTypes /\ ~Head(files).large
  THEN <<Head(files)>> \o validFiles(Tail(files))
  ELSE validFiles(Tail(files))

\* updateUI: both buttons follow selectedFiles.length > 0
updateUI(app) ==
  [app EXCEPT !.uploadBtn = [disabled |-> ~(Len(app.selectedFiles) > 0)],
              !.clearBtn = [disabled |-> ~(Len(app.selectedFiles) > 0)],
              !.updated = TRUE]

\* the constructor leaves the buttons as the page declares them
InitApp ==
  /\ rq = [r \in Reqs |-> NoRequest]
  /\ cli = CliOff
  /\ disk = {}
  /\ calls = <<>>
  /\ rmFailed = FALSE
  /\ \E u \in BOOLEAN, c \in BOOLEAN :
       pure = [kind |-> "app", selectedFiles |-> <<>>,
               uploadBtn |-> [disabled |-> u], clearBtn |-> [disabled |-> c],
               updated |-> FALSE, posts |-> <<>>, progress |-> "hidden"]

\* clearFiles as it would be without its call of updateUI
App_ClearFiles_KeepsButtons ==
  /\ pure.kind = "app"
  /\ pure' = [pure EXCEPT !.selectedFiles = <<>>, !.progress = "hidden"]
  /\ UNCHANGED <<disk, rq, calls, rmFailed, cli>>

\* handleFileSelection(files): keep the valid files, append, updateUI
App_HandleFileSelection ==
  /\ pure.kind = "app"
  /\ \E files \in FileLists :
       /\ Len(pure.selectedFiles) + Len(validFiles(files)) <= MaxSelected
       /\ pure' = updateUI([pure EXCEPT !.selectedFiles = @ \o validFiles(files)])
  /\ UNCHANGED <<disk, rq, calls, rmFailed, cli>>

\* clearFiles(): empty the selection, updateUI, hide progress
App_ClearFiles ==
  /\ pure.kind = "app"
  /\ pure' = updateUI([pure EXCEPT !.selectedFiles = <<>>, !.progress = "hidden"])
  /\ UNCHANGED <<disk, rq, calls, rmFailed, cli>>

\* uploadFiles() up to the fetch: nothing for an empty selection, else one
\* POST whose form data holds the selection (count files under field)
App_UploadFiles ==
  /\ pure.kind = "app"
  /\ Len(pure.posts) < MaxPosts
  /\ LET n == Len(pure.selectedFiles)
     IN pure' =
          IF n = 0 THEN pure
          ELSE IF n = 1
          THEN [pure EXCEPT !.progress = "shown",
                  !.posts = Append(@, [url |-> "/upload", field |-> "file",
                                       count |-> 1,
                                       state |-> "sent"])]
          ELSE [pure EXCEPT !.progress = "shown",
                  !.posts = Append(@, [url |-> "/upload/batch", field |-> "files",
                                       count |-> n,
                                       state |-> "sent"])]
  /\ UNCHANGED <<disk, rq, calls, rmFailed, cli>>

\* the rest of uploadSingleFile / uploadBatchFiles: the response, or the
\* failure of the fetch, ends with hideProgress
App_Response ==
  /\ pure.kind = "app"
  /\ \E n \in 1..Len(pure.posts) :
       /\ pure.posts[n].state = "sent"
       /\ pure' = [pure EXCEPT !.posts[n].state = "done", !.progress = "hidden"]
  /\ UNCHANGED <<disk, rq, calls, rmFailed, cli>>

NextApp ==
  \/ App_HandleFileSelection
  \/ App_ClearFiles
  \/ App_UploadFiles
  \/ App_Response

SpecApp == InitApp /\ [][NextApp]_vars

(***************************************************************************)
(* C35  In the browser application, after any sequence of file selections  *)
(* and clears, the upload and clear buttons are enabled exactly when       *)
(* selectedFiles is non-empty; uploadFiles sends nothing when no file is   *)
(* selected, posts to /upload when exactly one file is selected and to     *)
(* /upload/batch when two or more are selected.                            *)
(***************************************************************************)
\* once a selection or a clear has run, the buttons follow the selection
ButtonsFollowSelection ==
  (pure.kind = "app" /\ pure.updated) =>
    /\ pure.uploadBtn.disabled = (Len(pure.selectedFiles) = 0)
    /\ pure.clearBtn.disabled = (Len(pure.selectedFiles) = 0)

\* what a call of uploadFiles adds to the requests sent
UploadRoutes ==
  (pure.kind = "app" /\ pure.selectedFiles' = pure.selectedFiles
     /\ pure.updated' = pure.updated) =>
    LET n == Len(pure.selectedFiles)
        sent == Len(pure.posts') - Len(pure.posts)
        post == pure.posts'[Len(pure.posts')]
    IN /\ sent \in {0, 1}
       /\ n = 0 => sent = 0
       /\ (sent = 1 /\ n = 1) =>
            /\ post.url = "/upload"
            /\ post.field = "file"
            /\ post.count = 1
       /\ (sent = 1 /\ n >= 2) =>
            /\ post.url = "/upload/batch"
            /\ post.field = "files"
            /\ post.count = n

C35_ButtonsAndRoutes ==
  /\ []ButtonsFollowSelection
  /\ [][UploadRoutes]_vars

\* after selections and a clear, one file was posted to /upload and several
\* to /upload/batch, and the selection is empty again with the buttons off
C35_Witness ==
  /\ pure.kind = "app"
  /\ pure.updated
  /\ pure.selectedFiles = <<>>
  /\ pure.uploadBtn.disabled
  /\ \E a, b \in 1..Len(pure.posts) :
       /\ pure.posts[a].url = "/upload"
       /\ pure.posts[b].url = "/upload/batch"

====
